---- MODULE Spec2Model ----
(***************************************************************************)
(* Layered snapshot engine of go-options: the reflect-driven deep          *)
(* clone/merge primitive (layering/merge.go), Scope/Layer/Stack            *)
(* (scope_stack.go) and the path navigation and provenance trace of the    *)
(* Options wrapper (options.go).                                           *)
(*                                                                         *)
(* Go values are modelled as tagged trees, one tag per reflect.Kind the    *)
(* code dispatches on.  Every reference node (pointer, map, slice) carries *)
(* the address of its storage, so that aliasing between two values is      *)
(* visible as a shared address.  Strings that the code takes apart         *)
(* (paths, map keys, field names) are sequences of one-character strings.  *)
(***************************************************************************)
EXTENDS Integers, Sequences, FiniteSets, TLC

VARIABLES
    pc,         \* position of the driver program
    margs,      \* arguments handed to the merge primitive (strongest first)
    mop,        \* the primitive that produced mres
    mres,       \* result of the last call of the merge primitive
    layers,     \* caller-owned layers handed to NewStack, in call order
    stack,      \* *Stack returned by NewStack
    stackErr,   \* error returned by NewStack
    options,    \* *Options returned by Stack.Merge
    mergeErr,   \* error returned by Stack.Merge
    resolved,   \* result of the last Options.ResolveWithTrace call
    wrapper,    \* *Options derived by Clone, WithValue or LayerWith
    flat,       \* result of the last Options.FlattenWithProvenance call
    caller,     \* values the caller holds: its originals and what calls returned
    before,     \* what the accessors returned before the caller's last write
    walk,       \* the traversal of collectPaths over the caller's object graph
    wire,       \* a Trace on its way through ToJSON and TraceFromJSON
    storage,    \* the Store behind a state.Resolver
    mutation,   \* the position and the locals of a Resolver.Mutate call
    sharing,    \* the goroutines calling into one shared wrapper
    derivation  \* the wrappers derived from a merged one, and the query on the last

vars == <<pc, margs, mop, mres, layers, stack, stackErr, options, mergeErr, resolved,
          wrapper, flat, caller, before, walk, wire,
          storage, mutation, sharing, derivation>>

\* the state of the wrapper accessors and of the caller's own data
accessVars == <<wrapper, flat, caller, before>>

\* the state of the machinery around the wrapper
serviceVars == <<walk, wire, storage, mutation, sharing, derivation>>

\* the state of the layered snapshot engine proper
coreVars == <<pc, margs, mop, mres, layers, stack, stackErr, options, mergeErr, resolved>>

\* what a step of the traversal leaves alone
exceptWalk == <<coreVars, accessVars, wire, storage, mutation, sharing, derivation>>

\* what a step of the serialisation leaves alone
exceptWire == <<coreVars, accessVars, walk, storage, mutation, sharing, derivation>>

\* what a step of Resolver.Mutate leaves alone
exceptState == <<coreVars, accessVars, walk, wire, sharing, derivation>>

\* what a step of a goroutine leaves alone, the shared wrapper apart
exceptSharing == <<pc, margs, mop, mres, layers, stack, stackErr, mergeErr, resolved,
                   accessVars, walk, wire, storage, mutation, derivation>>

(***************************************************************************)
(* Bounds of the explored universe.                                        *)
(***************************************************************************)
MaxScalar == 1      \* scalars range over 0..MaxScalar; 0 is the zero value
MaxLen == 2         \* longest slice drawn as an input
MaxPrio == 3        \* scope priorities range over 1..MaxPrio

(***************************************************************************)
(* Values.                                                                 *)
(***************************************************************************)
Invalid == [k |-> "invalid"]        \* the zero reflect.Value / untyped nil
Panic == [k |-> "panic"]            \* the call did not return: a run-time panic
NoAddr == <<>>
NoEntries == [x \in {} |-> Invalid]

Scalar(n) == [k |-> "scalar", v |-> n]
NilPtr == [k |-> "ptr", nil |-> TRUE, addr |-> NoAddr, elem |-> Invalid]
Ptr(a, e) == [k |-> "ptr", nil |-> FALSE, addr |-> a, elem |-> e]
NilIface == [k |-> "iface", elem |-> Invalid]
Iface(e) == [k |-> "iface", elem |-> e]
Struct(tn, f) == [k |-> "struct", tn |-> tn, f |-> f]
NilMap == [k |-> "map", nil |-> TRUE, addr |-> NoAddr, m |-> NoEntries]
Map(a, m) == [k |-> "map", nil |-> FALSE, addr |-> a, m |-> m]
NilSlice == [k |-> "slice", nil |-> TRUE, addr |-> NoAddr, s |-> <<>>]
Slice(a, s) == [k |-> "slice", nil |-> FALSE, addr |-> a, s |-> s]
Array(s) == [k |-> "array", s |-> s]

IsValid(v) == v.k \notin {"invalid", "panic"}

\* reflect.Value.IsNil
IsNil(v) ==
    CASE v.k \in {"ptr", "map", "slice"} -> v.nil
      [] v.k = "iface" -> v.elem = Invalid
      [] OTHER -> FALSE

(***************************************************************************)
(* Strings as character sequences.                                         *)
(***************************************************************************)
Digits == <<"0", "1", "2", "3", "4", "5", "6", "7", "8", "9">>

DigitOf(c) == CHOOSE d \in 0..9 : Digits[d + 1] = c

IsDigit(c) == \E d \in 0..9 : Digits[d + 1] = c

RECURSIVE Itoa(_)
Itoa(i) == IF i < 10 THEN <<Digits[i + 1]>> ELSE Itoa(i \div 10) \o <<Digits[(i % 10) + 1]>>

(***************************************************************************)
(* Struct types: for each type name its fields in declaration order, with  *)
(* whether the field is exported and its json tag name (<<>> when none).   *)
(***************************************************************************)
TScalar == [k |-> "scalar"]
TIface(d) == [k |-> "iface", d |-> d]
TPtr(t) == [k |-> "ptr", elem |-> t]
TMap(keys, t) == [k |-> "map", keys |-> keys, elem |-> t]
TSlice(t) == [k |-> "slice", elem |-> t]
TArray(n, t) == [k |-> "array", n |-> n, elem |-> t]
TStruct(tn) == [k |-> "struct", tn |-> tn]

Field(name, exported, tag, t) == [name |-> name, exported |-> exported, tag |-> tag, t |-> t]

fFlag == <<"F", "l", "a", "g">>
fName == <<"N", "a", "m", "e">>
fCount == <<"C", "o", "u", "n", "t">>
fLabels == <<"L", "a", "b", "e", "l", "s">>
fEnabled == <<"E", "n", "a", "b", "l", "e", "d">>
fVolume == <<"V", "o", "l", "u", "m", "e">>
fChannel == <<"C", "h", "a", "n", "n", "e", "l">>
fSecret == <<"s", "e", "c", "r", "e", "t">>
fTags == <<"T", "a", "g", "s">>
fMeta == <<"M", "e", "t", "a">>
fTimeout == <<"T", "i", "m", "e", "o", "u", "t">>
fRetries == <<"R", "e", "t", "r", "i", "e", "s">>
tagLabels == <<"l", "a", "b", "e", "l", "s">>
tagName == <<"n", "a", "m", "e">>
NoTag == <<>>

kA == <<"a">>
kB == <<"b">>
Keys == {kA, kB}

StructFields(tn) ==
    CASE tn = "plain" ->
            <<Field(fFlag, TRUE, NoTag, TScalar), Field(fSecret, FALSE, NoTag, TScalar)>>
      [] tn = "channel" ->
            <<Field(fEnabled, TRUE, NoTag, TPtr(TScalar)), Field(fVolume, TRUE, NoTag, TScalar)>>
      [] tn = "settings" ->
            <<Field(fChannel, TRUE, NoTag, TPtr(TStruct("channel")))>>
      [] tn = "extras" ->
            <<Field(fTags, TRUE, NoTag, TSlice(TScalar)),
              Field(fMeta, TRUE, NoTag, TIface(0))>>
      [] tn = "AppOptions" ->
            <<Field(fTimeout, TRUE, NoTag, TScalar), Field(fRetries, TRUE, NoTag, TScalar)>>
      [] tn = "sampleSnapshot" ->
            <<Field(fName, TRUE, tagName, TScalar),
              Field(fCount, TRUE, NoTag, TPtr(TScalar)),
              Field(fLabels, TRUE, tagLabels, TMap(Keys, TScalar))>>

FieldNames(tn) == {StructFields(tn)[i].name : i \in 1..Len(StructFields(tn))}

FieldDesc(tn, name) ==
    LET fs == StructFields(tn) IN fs[CHOOSE i \in 1..Len(fs) : fs[i].name = name]

\* reflect.Value.CanSet on a field of a freshly allocated struct: exported fields only
CanSet(tn, name) == FieldDesc(tn, name).exported

RECURSIVE ZeroOf(_)
\* reflect.Zero / reflect.New(t).Elem(): the zero value of a type
ZeroOf(t) ==
    CASE t.k = "scalar" -> Scalar(0)
      [] t.k = "ptr" -> NilPtr
      [] t.k = "iface" -> NilIface
      [] t.k = "map" -> NilMap
      [] t.k = "slice" -> NilSlice
      [] t.k = "array" -> Array([i \in 1..t.n |-> ZeroOf(t.elem)])
      [] t.k = "struct" ->
            Struct(t.tn, [n \in FieldNames(t.tn) |-> ZeroOf(FieldDesc(t.tn, n).t)])

(***************************************************************************)
(* Storage addresses.  A value built by one call at base address p holds   *)
(* its reference nodes at p extended by the node's position in the value.  *)
(***************************************************************************)
AtElem(p) == p \o <<"*">>
AtDyn(p) == p \o <<"~">>
AtField(p, n) == (p \o <<".">>) \o n
AtKey(p, key) == (p \o <<"[">>) \o key
AtIndex(p, i) == (p \o <<"#">>) \o Itoa(i)

(***************************************************************************)
(* layering/merge.go                                                       *)
(***************************************************************************)
\* `if !elem.IsValid() { return reflect.Zero(v.Type()) }; return elem.Convert(v.Type())`
cloneIface(elem) == IF ~IsValid(elem) THEN NilIface ELSE Iface(elem)

RECURSIVE cloneValue(_, _)
cloneValue(v, p) ==
    CASE v.k = "invalid" -> v
      [] v.k = "ptr" ->
            IF v.nil THEN NilPtr ELSE Ptr(p, cloneValue(v.elem, AtElem(p)))
      [] v.k = "iface" ->
            IF v.elem = Invalid THEN NilIface
            ELSE cloneIface(cloneValue(v.elem, AtDyn(p)))
      [] v.k = "struct" ->
            Struct(v.tn, [n \in DOMAIN v.f |->
                            IF ~CanSet(v.tn, n) THEN ZeroOf(FieldDesc(v.tn, n).t)
                            ELSE cloneValue(v.f[n], AtField(p, n))])
      [] v.k = "map" ->
            IF v.nil THEN NilMap
            ELSE Map(p, [key \in DOMAIN v.m |-> cloneValue(v.m[key], AtKey(p, key))])
      [] v.k = "slice" ->
            IF v.nil THEN NilSlice
            ELSE Slice(p, [i \in 1..Len(v.s) |-> cloneValue(v.s[i], AtIndex(p, i - 1))])
      [] v.k = "array" ->
            Array([i \in 1..Len(v.s) |-> cloneValue(v.s[i], AtIndex(p, i - 1))])
      [] OTHER -> v

\* weak.Elem() behind the guard `weak.IsValid() && !weak.IsNil()` of the
\* interface case; Panic where reflect panics on the kind
IfaceWeakElem(weak) ==
    CASE ~IsValid(weak) -> Invalid
      [] weak.k \in {"scalar", "struct", "array"} -> Panic
      [] IsNil(weak) -> Invalid
      [] weak.k \in {"iface", "ptr"} -> weak.elem
      [] OTHER -> Panic

\* `result.Elem().Set(merged)`: reflect panics on the zero Value
setPointer(p, merged) == IF ~IsValid(merged) THEN Panic ELSE Ptr(p, merged)

\* `merged.Convert(strong.Type())`: reflect panics on the zero Value
convertIface(merged) == IF ~IsValid(merged) THEN Panic ELSE Iface(merged)

\* `field.Set(merged)` for every field: reflect panics on the zero Value
setFields(tn, f) == IF \E n \in DOMAIN f : ~IsValid(f[n]) THEN Panic ELSE Struct(tn, f)

\* `result.Index(i).Set(merged)` for every index: reflect panics on the zero Value
setIndices(s) == IF \E i \in 1..Len(s) : ~IsValid(s[i]) THEN Panic ELSE Array(s)

\* `result.SetMapIndex(key, merged)` for every key: the zero Value deletes the key
setMapIndices(p, all) ==
    IF \E key \in DOMAIN all : all[key] = Panic THEN Panic
    ELSE Map(p, [key \in {k \in DOMAIN all : all[k] # Invalid} |-> all[key]])

\* the weaker pointee behind the guard `weak.IsValid() && weak.Kind() == reflect.Pointer && !weak.IsNil()`
PtrWeakElem(weak) == IF IsValid(weak) /\ weak.k = "ptr" /\ ~weak.nil THEN weak.elem ELSE Invalid

\* weakStruct.Field(n) behind the guards `weak.IsValid() && weak.Type() == strong.Type()`
StructWeakField(strong, weak, n) ==
    IF IsValid(weak) /\ weak.k = "struct" /\ weak.tn = strong.tn THEN weak.f[n] ELSE Invalid

\* weak.Index(i) behind the guard `weak.IsValid() && weak.Len() > i`
ArrayWeakElem(weak, i) ==
    IF IsValid(weak) /\ weak.k = "array" /\ Len(weak.s) > i - 1 THEN weak.s[i] ELSE Invalid

\* every key of a valid, non-nil weak map, cloned
mapFromWeak(weak, p) ==
    IF IsValid(weak) /\ weak.k = "map" /\ ~weak.nil
    THEN [key \in DOMAIN weak.m |-> cloneValue(weak.m[key], AtKey(p, key))]
    ELSE NoEntries

RECURSIVE mergeValue(_, _, _)

\* a variant in which a nil pointer in the stronger value overrides and nothing
\* is inherited
mergeNilPointer_overrides(weak, p) == NilPtr

\* a nil pointer in the stronger value: `return cloneValue(weak)`
mergeNilPointer(weak, p) == cloneValue(weak, p)

\* a variant in which a set map replaces the weaker map wholesale, as a slice does
mergeMap_wholesale(strong, weak, p) ==
    Map(p, [key \in DOMAIN strong.m |-> cloneValue(strong.m[key], AtKey(p, key))])

\* one entry of the merged map, fromWeak being the clone of weak's entries
mergeMapEntry(strong, fromWeak, key, p) ==
    IF key \notin DOMAIN strong.m THEN fromWeak[key]
    ELSE IF key \in DOMAIN fromWeak
         THEN mergeValue(strong.m[key], fromWeak[key], AtKey(p, key))
         ELSE cloneValue(strong.m[key], AtKey(p, key))

\* the merged entries: every key of weak, then every key of strong over it
mergeMapEntries(strong, fromWeak, p) ==
    [key \in DOMAIN fromWeak \cup DOMAIN strong.m |-> mergeMapEntry(strong, fromWeak, key, p)]

\* a non-nil map in the stronger value: every key of weak cloned, then every
\* key of strong merged over it
mergeMap(strong, weak, p) ==
    setMapIndices(p, mergeMapEntries(strong, mapFromWeak(weak, p), p))

\* a variant in which the elements of weak beyond the length of strong survive
mergeSlice_indexwise(strong, weak, p) ==
    LET tail == IF IsValid(weak) /\ weak.k = "slice" /\ Len(weak.s) > Len(strong.s)
                THEN SubSeq(weak.s, Len(strong.s) + 1, Len(weak.s)) ELSE <<>>
        all == strong.s \o tail
    IN Slice(p, [i \in 1..Len(all) |-> cloneValue(all[i], AtIndex(p, i - 1))])

\* a non-nil slice in the stronger value: its elements cloned, weak unused
mergeSlice(strong, weak, p) ==
    Slice(p, [i \in 1..Len(strong.s) |-> cloneValue(strong.s[i], AtIndex(p, i - 1))])

mergeValue(strong, weak, p) ==
    CASE ~IsValid(strong) -> cloneValue(weak, p)
      [] strong.k = "ptr" ->
            IF strong.nil THEN mergeNilPointer(weak, p)
            ELSE setPointer(p, mergeValue(strong.elem, PtrWeakElem(weak), AtElem(p)))
      [] strong.k = "iface" ->
            IF strong.elem = Invalid THEN cloneValue(weak, p)
            ELSE IF IfaceWeakElem(weak) = Panic THEN Panic
            ELSE convertIface(mergeValue(strong.elem, IfaceWeakElem(weak), AtDyn(p)))
      [] strong.k = "struct" ->
            setFields(strong.tn,
                      [n \in DOMAIN strong.f |->
                          IF ~CanSet(strong.tn, n) THEN ZeroOf(FieldDesc(strong.tn, n).t)
                          ELSE mergeValue(strong.f[n], StructWeakField(strong, weak, n),
                                          AtField(p, n))])
      [] strong.k = "map" ->
            IF strong.nil THEN cloneValue(weak, p) ELSE mergeMap(strong, weak, p)
      [] strong.k = "slice" ->
            IF strong.nil THEN cloneValue(weak, p) ELSE mergeSlice(strong, weak, p)
      [] strong.k = "array" ->
            setIndices([i \in 1..Len(strong.s) |->
                           mergeValue(strong.s[i], ArrayWeakElem(weak, i), AtIndex(p, i - 1))])
      [] OTHER -> cloneValue(strong, p)

RECURSIVE MergeFold_weakestWins(_, _, _, _)
\* the fold with the operands of each merge exchanged
MergeFold_weakestWins(ls, i, merged, p) ==
    IF i < 1 \/ merged = Panic THEN merged
    ELSE MergeFold_weakestWins(ls, i - 1, mergeValue(merged, ls[i], p \o Itoa(i)), p)

RECURSIVE MergeFold(_, _, _, _)
\* the loop of MergeLayers: for i := len(layers)-2; i >= 0; i--
MergeFold(ls, i, merged, p) ==
    IF i < 1 \/ merged = Panic THEN merged
    ELSE MergeFold(ls, i - 1, mergeValue(ls[i], merged, p \o Itoa(i)), p)

\* the return of MergeLayers: the zero T for an invalid merged value
mergedOrZero(t, merged) ==
    IF merged = Panic THEN Panic
    ELSE IF ~IsValid(merged) THEN ZeroOf(t)
    ELSE merged

\* MergeLayers[T](layers...), T given by its type descriptor
MergeLayers(t, ls, p) ==
    IF Len(ls) = 0 THEN ZeroOf(t)
    ELSE mergedOrZero(t, MergeFold(ls, Len(ls) - 1,
                                   cloneValue(ls[Len(ls)], p \o Itoa(Len(ls))), p))

\* layering.Clone[T](value)
Clone(t, v, p) == mergedOrZero(t, cloneValue(v, p))

(***************************************************************************)
(* The values of a type within the bounds, as a caller would build them.   *)
(* Dynamic values held in interfaces are JSON-like: scalars and            *)
(* map[string]any.                                                         *)
(***************************************************************************)
RECURSIVE Vals(_)
Vals(t) ==
    CASE t.k = "scalar" -> {Scalar(n) : n \in 0..MaxScalar}
      [] t.k = "ptr" -> {NilPtr} \cup {Ptr(NoAddr, e) : e \in Vals(t.elem)}
      [] t.k = "iface" ->
            {NilIface} \cup {Iface(e) : e \in Vals(TScalar)}
            \cup (IF t.d = 0 THEN {}
                  ELSE {Iface(e) : e \in Vals(TMap({kA}, TIface(t.d - 1))) \ {NilMap}})
      [] t.k = "map" ->
            {NilMap} \cup
            UNION {{Map(NoAddr, m) : m \in [K -> Vals(t.elem)]} : K \in SUBSET t.keys}
      [] t.k = "slice" ->
            {NilSlice} \cup
            UNION {{Slice(NoAddr, s) : s \in [1..n -> Vals(t.elem)]} : n \in 0..MaxLen}
      [] t.k = "array" -> {Array(s) : s \in [1..t.n -> Vals(t.elem)]}
      [] t.k = "struct" ->
            {Struct(t.tn, f) :
                f \in {g \in [FieldNames(t.tn) ->
                                UNION {Vals(FieldDesc(t.tn, n).t) : n \in FieldNames(t.tn)}] :
                        \A n \in FieldNames(t.tn) : g[n] \in Vals(FieldDesc(t.tn, n).t)}}

RECURSIVE Alloc(_, _)
\* the caller's allocation of a literal: storage for every reference node
Alloc(v, p) ==
    CASE v.k = "ptr" -> IF v.nil THEN v ELSE Ptr(p, Alloc(v.elem, AtElem(p)))
      [] v.k = "iface" -> IF v.elem = Invalid THEN v ELSE Iface(Alloc(v.elem, AtDyn(p)))
      [] v.k = "struct" -> Struct(v.tn, [n \in DOMAIN v.f |-> Alloc(v.f[n], AtField(p, n))])
      [] v.k = "map" ->
            IF v.nil THEN v ELSE Map(p, [key \in DOMAIN v.m |-> Alloc(v.m[key], AtKey(p, key))])
      [] v.k = "slice" ->
            IF v.nil THEN v
            ELSE Slice(p, [i \in 1..Len(v.s) |-> Alloc(v.s[i], AtIndex(p, i - 1))])
      [] v.k = "array" -> Array([i \in 1..Len(v.s) |-> Alloc(v.s[i], AtIndex(p, i - 1))])
      [] OTHER -> v

RECURSIVE Strip(_)
\* the value without its storage addresses: what reflect.DeepEqual compares
Strip(v) ==
    CASE v.k = "ptr" -> IF v.nil THEN v ELSE Ptr(NoAddr, Strip(v.elem))
      [] v.k = "iface" -> IF v.elem = Invalid THEN v ELSE Iface(Strip(v.elem))
      [] v.k = "struct" -> Struct(v.tn, [n \in DOMAIN v.f |-> Strip(v.f[n])])
      [] v.k = "map" ->
            IF v.nil THEN v ELSE Map(NoAddr, [key \in DOMAIN v.m |-> Strip(v.m[key])])
      [] v.k = "slice" ->
            IF v.nil THEN v ELSE Slice(NoAddr, [i \in 1..Len(v.s) |-> Strip(v.s[i])])
      [] v.k = "array" -> Array([i \in 1..Len(v.s) |-> Strip(v.s[i])])
      [] OTHER -> v

RECURSIVE Addrs(_)
\* the storage reachable from a value
Addrs(v) ==
    CASE v.k = "ptr" -> IF v.nil THEN {} ELSE {v.addr} \cup Addrs(v.elem)
      [] v.k = "iface" -> IF v.elem = Invalid THEN {} ELSE Addrs(v.elem)
      [] v.k = "struct" -> UNION {Addrs(v.f[n]) : n \in DOMAIN v.f}
      [] v.k = "map" ->
            IF v.nil THEN {} ELSE {v.addr} \cup UNION {Addrs(v.m[key]) : key \in DOMAIN v.m}
      [] v.k = "slice" ->
            IF v.nil THEN {} ELSE {v.addr} \cup UNION {Addrs(v.s[i]) : i \in 1..Len(v.s)}
      [] v.k = "array" -> UNION {Addrs(v.s[i]) : i \in 1..Len(v.s)}
      [] OTHER -> {}

DeepEqual(a, b) == Strip(a) = Strip(b)

(***************************************************************************)
(* Byte order of the characters that occur, for Go's string comparison.    *)
(***************************************************************************)
Alphabet ==
    <<" ", "+", "-", ".", "/", "0", "1", "2", "3", "4", "5", "6", "7", "8", "9",
      "A", "B", "C", "D", "E", "F", "G", "H", "I", "J", "K", "L", "M", "N", "O", "P", "Q",
      "R", "S", "T", "U", "V", "W", "X", "Y", "Z",
      "a", "b", "c", "d", "e", "f", "g", "h", "i", "j", "k", "l", "m", "n", "o", "p", "q",
      "r", "s", "t", "u", "v", "w", "x", "y", "z">>

CharCode(c) == CHOOSE i \in 1..Len(Alphabet) : Alphabet[i] = c

RECURSIVE StrLess(_, _)
\* a < b on Go strings
StrLess(a, b) ==
    IF b = <<>> THEN FALSE
    ELSE IF a = <<>> THEN TRUE
    ELSE IF Head(a) = Head(b) THEN StrLess(Tail(a), Tail(b))
    ELSE CharCode(Head(a)) < CharCode(Head(b))

(***************************************************************************)
(* scope_stack.go: Scope, Layer, Stack                                     *)
(***************************************************************************)
Error(kind, detail) == [kind |-> kind, detail |-> detail]
NoError == Error("nil", <<>>)
ErrScopeNameRequired == Error("ErrScopeNameRequired", <<>>)
\* a duplicate name reported under the kind of a missing name
ErrDuplicateScopeName_asRequired(name) == Error("ErrScopeNameRequired", <<>>)
ErrDuplicateScopeName(name) == Error("ErrDuplicateScopeName", name)
ErrPriorityOrder(priority) == Error("ErrPriorityOrder", Itoa(priority))
ErrEmptyStack == Error("scope: stack must include at least one layer", <<>>)

\* len(m) of a map value
MapLen(m) == IF m.nil THEN 0 ELSE Cardinality(DOMAIN m.m)

\* copyMetadata: a new map holding the same values, nil for an empty one
copyMetadata(origin, p) ==
    IF MapLen(origin) = 0 THEN NilMap ELSE Map(p, origin.m)

Scope(name, label, priority, metadata) ==
    [Name |-> name, Label |-> label, Priority |-> priority, Metadata |-> metadata]

ZeroScope == Scope(<<>>, <<>>, 0, NilMap)

\* NewScope(name, priority, WithScopeLabel(label), WithScopeMetadata(metadata))
NewScope(name, priority, label, metadata, p) ==
    LET cfgMetadata == IF MapLen(metadata) = 0 THEN NilMap
                       ELSE copyMetadata(metadata, p \o <<"cfg">>)
    IN Scope(name, label, priority, copyMetadata(cfgMetadata, p))

\* Scope.clone
ScopeClone(sc, p) ==
    Scope(sc.Name, sc.Label, sc.Priority, copyMetadata(sc.Metadata, p))

Layer(scope, snapshot, id) == [Scope |-> scope, Snapshot |-> snapshot, SnapshotID |-> id]

\* NewLayer(scope, snapshot, WithSnapshotID(id)) for snapshots of type t
NewLayer(t, scope, snapshot, id, p) ==
    Layer(ScopeClone(scope, p \o <<"scope">>), Clone(t, snapshot, p \o <<"snap">>), id)

\* a variant in which a layer is handed on with the storage it came with
cloneLayer_shared(t, layer, p) == layer

cloneLayer(t, layer, p) ==
    Layer(ScopeClone(layer.Scope, p \o <<"scope">>),
          Clone(t, layer.Snapshot, p \o <<"snap">>),
          layer.SnapshotID)

\* the comparison handed to sort.Slice in NewStack
LayerLess(a, b) ==
    IF a.Scope.Priority = b.Scope.Priority THEN StrLess(a.Scope.Name, b.Scope.Name)
    ELSE a.Scope.Priority > b.Scope.Priority

RECURSIVE InsertSorted(_, _)
InsertSorted(sorted, x) ==
    IF sorted = <<>> THEN <<x>>
    ELSE IF LayerLess(x, Head(sorted)) THEN <<x>> \o sorted
    ELSE <<Head(sorted)>> \o InsertSorted(Tail(sorted), x)

RECURSIVE SortLayers(_)
\* sort.Slice(copied, less): the names are distinct here, so the order is total
SortLayers(ls) ==
    IF ls = <<>> THEN <<>>
    ELSE InsertSorted(SortLayers(SubSeq(ls, 1, Len(ls) - 1)), ls[Len(ls)])

StackOf(ls) == [nil |-> FALSE, layers |-> ls]
NilStack == [nil |-> TRUE, layers |-> <<>>]

\* the index of the first layer, in call order, whose name is empty or was
\* seen before (0 when there is none)
firstBadName(copied) ==
    LET bad == {i \in 1..Len(copied) :
                   \/ copied[i].Scope.Name = <<>>
                   \/ \E j \in 1..(i - 1) : copied[j].Scope.Name = copied[i].Scope.Name}
    IN IF bad = {} THEN 0 ELSE CHOOSE i \in bad : \A j \in bad : i <= j

\* the index of the first sorted layer whose priority does not lie strictly
\* below its predecessor's (0 when there is none)
firstBadPriority(sorted) ==
    LET bad == {i \in 2..Len(sorted) :
                   sorted[i - 1].Scope.Priority <= sorted[i].Scope.Priority}
    IN IF bad = {} THEN 0 ELSE CHOOSE i \in bad : \A j \in bad : i <= j

\* the sort and the loop after it
sortAndCheck(sorted) ==
    IF firstBadPriority(sorted) # 0
    THEN [stack |-> NilStack,
          err |-> ErrPriorityOrder(sorted[firstBadPriority(sorted)].Scope.Priority)]
    ELSE [stack |-> StackOf(sorted), err |-> NoError]

\* the first loop, then the sort and the second loop
checkNames(copied) ==
    IF firstBadName(copied) = 0 THEN sortAndCheck(SortLayers(copied))
    ELSE [stack |-> NilStack,
          err |-> IF copied[firstBadName(copied)].Scope.Name = <<>> THEN ErrScopeNameRequired
                  ELSE ErrDuplicateScopeName(copied[firstBadName(copied)].Scope.Name)]

\* construction that sorts and checks the priorities but not the names
NewStack_namesUnchecked(t, ls, p) ==
    IF Len(ls) = 0 THEN [stack |-> StackOf(<<>>), err |-> NoError]
    ELSE sortAndCheck(SortLayers([i \in 1..Len(ls) |-> cloneLayer(t, ls[i], p \o Itoa(i))]))

\* NewStack(layers...): the (*Stack, error) pair
NewStack(t, ls, p) ==
    IF Len(ls) = 0 THEN [stack |-> StackOf(<<>>), err |-> NoError]
    ELSE checkNames([i \in 1..Len(ls) |-> cloneLayer(t, ls[i], p \o Itoa(i))])

\* a []Layer[T]: nil, or its elements
NilLayers == [nil |-> TRUE, s |-> <<>>]
LayerSlice(ls) == [nil |-> FALSE, s |-> ls]

\* Stack.Layers
StackLayers(t, s, p) ==
    IF s.nil \/ Len(s.layers) = 0 THEN NilLayers
    ELSE LayerSlice([i \in 1..Len(s.layers) |-> cloneLayer(t, s.layers[i], p \o Itoa(i))])

\* Stack.Len
StackLen(s) == IF s.nil THEN 0 ELSE Len(s.layers)

(***************************************************************************)
(* options.go: the Options wrapper                                         *)
(***************************************************************************)
NoOptions == [nil |-> TRUE]

\* New(value): the wrapper with the zero configuration and no layers
\* allocated at address p
New(value, p) ==
    [nil |-> FALSE, self |-> p, Value |-> value, cfg |-> [scope |-> ZeroScope], layers |-> <<>>]

\* Options.attachLayers
attachLayers(o, ls) == IF o.nil THEN o ELSE [o EXCEPT !.layers = ls]

\* Options.layerSnapshots: a copy of the slice, its entries shared
layerSnapshots(o) == IF o.nil THEN <<>> ELSE o.layers

\* `options := New(merged, opts...); options.attachLayers(layerMeta)`
mergedOptions(merged, layerMeta, p) ==
    IF merged = Panic THEN [options |-> NoOptions, err |-> Error("panic", <<>>)]
    ELSE [options |-> attachLayers(New(merged, p), layerMeta), err |-> NoError]

\* resolution that answers an empty stack with the zero value
StackMerge_zeroValue(t, s, p) ==
    IF s.nil \/ Len(s.layers) = 0 THEN [options |-> New(ZeroOf(t), p), err |-> NoError]
    ELSE mergedOptions(MergeLayers(t, [i \in 1..Len(s.layers) |-> s.layers[i].Snapshot], p),
                       s.layers, p)

\* Stack.Merge: the (*Options, error) pair; a panic of MergeLayers is the
\* error kind "panic"
StackMerge(t, s, p) ==
    IF s.nil \/ Len(s.layers) = 0 THEN [options |-> NoOptions, err |-> ErrEmptyStack]
    ELSE mergedOptions(
            MergeLayers(t,
                        [i \in 1..Len(s.layers) |->
                            Clone(t, s.layers[i].Snapshot, (p \o <<"in">>) \o Itoa(i))],
                        p \o <<"value">>),
            [i \in 1..Len(s.layers) |->
                Layer(ScopeClone(s.layers[i].Scope, (p \o <<"scope">>) \o Itoa(i)),
                      Clone(t, s.layers[i].Snapshot, (p \o <<"raw">>) \o Itoa(i)),
                      s.layers[i].SnapshotID)],
            p)

(***************************************************************************)
(* options.go: dot-path navigation                                         *)
(***************************************************************************)
Result(v, err) == [v |-> v, err |-> err]
Ok(v) == Result(v, <<>>)
Fail(msg) == Result(Invalid, <<msg>>)
Failed(r) == r.err # <<>>

\* strings.TrimSpace(path) == ""
IsBlank(path) == \A i \in 1..Len(path) : path[i] = " "

RECURSIVE navigateSegments(_, _)
RECURSIVE Split(_, _)
\* strings.Split(s, sep) for a one-character separator
Split(str, sep) ==
    IF \A i \in 1..Len(str) : str[i] # sep THEN <<str>>
    ELSE LET i == CHOOSE i \in 1..Len(str) : str[i] = sep /\ \A j \in 1..(i - 1) : str[j] # sep
         IN <<SubSeq(str, 1, i - 1)>> \o Split(SubSeq(str, i + 1, Len(str)), sep)

\* splitPath: the segments, or the error
splitPath(path) ==
    IF IsBlank(path) THEN Fail("opts: path must not be empty")
    ELSE LET segments == Split(path, ".")
         IN IF \E i \in 1..Len(segments) : segments[i] = <<>>
            THEN Fail("opts: path contains empty segment")
            ELSE Ok(segments)

RECURSIVE DigitsValue(_, _)
DigitsValue(str, acc) ==
    IF str = <<>> THEN acc ELSE DigitsValue(Tail(str), (acc * 10) + DigitOf(Head(str)))

\* strconv.Atoi: an optional sign, then one or more decimal digits
Atoi(str) ==
    LET signed == str # <<>> /\ Head(str) \in {"+", "-"}
        body == IF signed THEN Tail(str) ELSE str
    IN IF body = <<>> \/ \E i \in 1..Len(body) : ~IsDigit(body[i])
       THEN [ok |-> FALSE, n |-> 0]
       ELSE [ok |-> TRUE,
             n |-> IF signed /\ Head(str) = "-" THEN 0 - DigitsValue(body, 0)
                   ELSE DigitsValue(body, 0)]

\* reflect.Value.Interface: the value as an `any`, an interface unwrapped
ToAny(v) == IF v.k = "iface" THEN v.elem ELSE v

\* the first exported field, in declaration order, whose json tag name is the
\* segment (0 when there is none)
fieldByTag(fs, segment) ==
    LET tagged == {i \in 1..Len(fs) : /\ fs[i].exported
                                      /\ fs[i].tag \notin {<<>>, <<"-">>}
                                      /\ fs[i].tag = segment}
    IN IF tagged = {} THEN 0 ELSE CHOOSE i \in tagged : \A j \in tagged : i <= j

\* structFieldByName: the exported field of that Go name, else the first
\* exported field with that json tag name; Invalid when there is none
structFieldByName(rv, segment) ==
    IF \E i \in 1..Len(StructFields(rv.tn)) :
          StructFields(rv.tn)[i].name = segment /\ StructFields(rv.tn)[i].exported
    THEN rv.f[segment]
    ELSE IF fieldByTag(StructFields(rv.tn), segment) # 0
    THEN rv.f[StructFields(rv.tn)[fieldByTag(StructFields(rv.tn), segment)].name]
    ELSE Invalid

RECURSIVE DerefPointers(_)
\* for rv.Kind() == reflect.Pointer { ... rv = rv.Elem() }; Invalid at a nil pointer
DerefPointers(rv) ==
    IF rv.k # "ptr" THEN rv
    ELSE IF rv.nil THEN Invalid
    ELSE DerefPointers(rv.elem)

\* the switch of navigateSegment on the kind of the dereferenced value
navigateKind(rv, segment) ==
    CASE rv = Invalid -> Fail("encountered nil pointer")
      [] rv.k = "map" ->
            IF segment \notin DOMAIN rv.m THEN Fail("segment not found")
            ELSE Ok(ToAny(rv.m[segment]))
      [] rv.k = "struct" ->
            IF structFieldByName(rv, segment) = Invalid THEN Fail("field not found")
            ELSE Ok(ToAny(structFieldByName(rv, segment)))
      [] rv.k \in {"slice", "array"} ->
            IF ~Atoi(segment).ok THEN Fail("expected numeric index")
            ELSE IF Atoi(segment).n < 0 \/ Atoi(segment).n >= Len(rv.s)
            THEN Fail("index out of bounds")
            ELSE Ok(ToAny(rv.s[Atoi(segment).n + 1]))
      [] OTHER -> Fail("type does not support navigation")

navigateSegment(value, segment) ==
    IF value = Invalid THEN Fail("encountered nil value")
    ELSE navigateKind(DerefPointers(value), segment)

\* one step of the loop of navigateSegments
navigateRest(step, segments) ==
    IF Failed(step) THEN step ELSE navigateSegments(step.v, segments)

navigateSegments(value, segments) ==
    IF segments = <<>> THEN Ok(value)
    ELSE navigateRest(navigateSegment(value, Head(segments)), Tail(segments))

\* the error wrapping of Get
getResult(found) ==
    IF Failed(found) THEN Fail("opts: path cannot traverse segment") ELSE found

\* the body of Get after splitPath
getSegments(o, segments) ==
    IF Failed(segments) THEN Fail(segments.err[1])
    ELSE getResult(navigateSegments(ToAny(o.Value), segments.v))

\* Options.Get
Get(o, path) == getSegments(o, splitPath(path))

(***************************************************************************)
(* options.go: provenance                                                  *)
(***************************************************************************)
Provenance(scope, id, path, value, found) ==
    [Scope |-> scope, SnapshotID |-> id, Path |-> path, Value |-> value, Found |-> found]

Trace(path, provs) == [Path |-> path, Layers |-> provs]

Resolution(value, trace, err) == [called |-> TRUE, value |-> value, trace |-> trace, err |-> err]

\* `prov.Found = true; prov.Value = layerValue` when the navigation succeeded
provenanceOf(layer, path, layerValue) ==
    IF Failed(layerValue)
    THEN Provenance(layer.Scope, layer.SnapshotID, path, Invalid, FALSE)
    ELSE Provenance(layer.Scope, layer.SnapshotID, path, layerValue.v, TRUE)

\* the Provenance entry ResolveWithTrace builds for one retained layer
layerProvenance(layer, path, segments) ==
    provenanceOf(layer, path, navigateSegments(ToAny(layer.Snapshot), segments))

lastResolved(hits) == CHOOSE i \in hits : \A j \in hits : j <= i

\* `if !resolved { value = layerValue; resolved = true }`: the first layer that hit
firstResolved(hits) == CHOOSE i \in hits : \A j \in hits : i <= j

\* the layers whose entry was found
resolvedLayers(provs) == {i \in 1..Len(provs) : provs[i].Found}

\* without retained layers: the value itself, attributed to the wrapper's scope
resolveDirect(o, path, direct) ==
    IF Failed(direct) THEN Resolution(Invalid, Trace(path, <<>>), direct.err)
    ELSE Resolution(direct.v,
                    Trace(path, <<Provenance(ScopeClone(o.cfg.scope, <<"prov">>),
                                             <<>>, path, direct.v, TRUE)>>),
                    <<>>)

\* a variant in which a path that no layer resolved is always an error
resolveFallback_unresolved(path, provs, finalValue) ==
    Resolution(Invalid, Trace(path, provs), <<"opts: path resolved in no layer">>)

\* no layer resolved the path: the merged value decides
resolveFallback(path, provs, finalValue) ==
    IF Failed(finalValue) THEN Resolution(Invalid, Trace(path, provs), finalValue.err)
    ELSE Resolution(finalValue.v, Trace(path, provs), <<>>)

\* the return after the loop over the retained layers
resolveLayers(o, path, provs) ==
    IF resolvedLayers(provs) # {}
    THEN Resolution(provs[firstResolved(resolvedLayers(provs))].Value, Trace(path, provs), <<>>)
    ELSE resolveFallback(path, provs, Get(o, path))

\* the body of ResolveWithTrace after splitPath
resolveSegments(o, path, segments, ls) ==
    IF Failed(segments) THEN Resolution(Invalid, Trace(path, <<>>), segments.err)
    ELSE IF Len(ls) = 0 THEN resolveDirect(o, path, Get(o, path))
    ELSE resolveLayers(o, path,
                       [i \in 1..Len(ls) |-> layerProvenance(ls[i], path, segments.v)])

\* Options.ResolveWithTrace
ResolveWithTrace(o, path) ==
    IF o.nil THEN Resolution(Invalid, Trace(path, <<>>), <<"opts: nil options wrapper">>)
    ELSE resolveSegments(o, path, splitPath(path), layerSnapshots(o))

(***************************************************************************)
(* options.go: FlattenWithProvenance                                       *)
(***************************************************************************)
\* `if prefix != "" { paths[prefix] = struct{}{} }`
leafPath(prefix) == IF prefix = <<>> THEN {} ELSE {prefix}

appendPathSegment(prefix, segment) ==
    IF prefix = <<>> THEN segment
    ELSE IF segment = <<>> THEN prefix
    ELSE (prefix \o <<".">>) \o segment

\* structFieldSegment: the name part of the json tag, else the Go name
structFieldSegment(sf) ==
    IF sf.tag # <<>> /\ sf.tag # <<"-">> /\ Split(sf.tag, ",")[1] # <<>>
    THEN Split(sf.tag, ",")[1]
    ELSE sf.name

\* the fields flattenValue descends into
flattenedFields(tn) ==
    {i \in 1..Len(StructFields(tn)) :
        StructFields(tn)[i].exported /\ structFieldSegment(StructFields(tn)[i]) # <<>>}

RECURSIVE flattenValue(_, _, _)
\* flattenValue: the leaf paths below rv.  seen holds the pointers passed on
\* the way down; the values of this model are trees, so no pointer is met
\* twice on different branches.  Every map of the model is string-keyed.
flattenValue(rv, prefix, seen) ==
    CASE rv.k = "invalid" -> leafPath(prefix)
      [] rv.k = "iface" ->
            IF rv.elem = Invalid THEN leafPath(prefix) ELSE flattenValue(rv.elem, prefix, seen)
      [] rv.k = "ptr" ->
            IF rv.nil THEN leafPath(prefix)
            ELSE IF rv.addr \in seen THEN {}
            ELSE flattenValue(rv.elem, prefix, seen \cup {rv.addr})
      [] rv.k = "struct" ->
            UNION {flattenValue(rv.f[StructFields(rv.tn)[i].name],
                                appendPathSegment(prefix,
                                                  structFieldSegment(StructFields(rv.tn)[i])),
                                seen) : i \in flattenedFields(rv.tn)}
      [] rv.k = "map" ->
            IF rv.nil THEN leafPath(prefix)
            ELSE UNION {flattenValue(rv.m[key], appendPathSegment(prefix, key), seen) :
                            key \in DOMAIN rv.m}
      [] rv.k \in {"slice", "array"} ->
            IF Len(rv.s) = 0 THEN leafPath(prefix)
            ELSE UNION {flattenValue(rv.s[i], appendPathSegment(prefix, Itoa(i - 1)), seen) :
                            i \in 1..Len(rv.s)}
      [] OTHER -> leafPath(prefix)

\* the least string of a non-empty set
leastString(S) == CHOOSE x \in S : \A y \in S \ {x} : StrLess(x, y)

RECURSIVE sortStrings(_)
\* sort.Strings over the keys of the path set
sortStrings(S) ==
    IF S = {} THEN <<>> ELSE <<leastString(S)>> \o sortStrings(S \ {leastString(S)})

collectPaths(value) == sortStrings(flattenValue(value, <<>>, {}))

Flattened(results, err) == [called |-> TRUE, results |-> results, err |-> err]

\* the entry FlattenWithProvenance records for one path: the first layer
\* that found it, else the last layer of the trace
recordedEntry(provs) ==
    IF resolvedLayers(provs) # {}
    THEN <<provs[CHOOSE i \in resolvedLayers(provs) : \A j \in resolvedLayers(provs) : i <= j]>>
    ELSE IF Len(provs) > 0 THEN <<provs[Len(provs)]>>
    ELSE <<>>

RECURSIVE flattenResults(_)
\* the loop over the paths: (results, nil), or (nil, err) at the first error
flattenResults(resolutions) ==
    IF resolutions = <<>> THEN Flattened(<<>>, <<>>)
    ELSE IF Head(resolutions).err # <<>> THEN Flattened(<<>>, Head(resolutions).err)
    ELSE IF flattenResults(Tail(resolutions)).err # <<>> THEN flattenResults(Tail(resolutions))
    ELSE Flattened(recordedEntry(Head(resolutions).trace.Layers)
                       \o flattenResults(Tail(resolutions)).results,
                   <<>>)

flattenPaths(o, paths) ==
    flattenResults([i \in 1..Len(paths) |-> ResolveWithTrace(o, paths[i])])

\* Options.FlattenWithProvenance
FlattenWithProvenance(o) ==
    IF o.nil THEN Flattened(<<>>, <<"opts: nil options wrapper">>)
    ELSE flattenPaths(o, collectPaths(o.Value))

(***************************************************************************)
(* options.go: collectPaths over an object graph.  The trees above cannot  *)
(* hold a value that contains itself, so here the caller's maps live in a  *)
(* heap: a dynamic value is a scalar, a map[string]any (a reference to the *)
(* map's storage) or a pointer to the variable that holds such a map.      *)
(* flattenValue is taken one call at a time: calls is its call stack, one  *)
(* frame per call that is iterating a map.                                 *)
(***************************************************************************)
MaxDepth == 7       \* frames of flattenValue the goroutine stack has room for

MapAt(a) == [k |-> "map", at |-> a]
PtrTo(a) == [k |-> "ptr", at |-> a]

\* reflect.Value.Pointer of a pointer to the variable holding map a
PointerOf(a) == <<"&">> \o a

NoWalk == [pc |-> "idle"]

\* flattenValue(rv, prefix, paths, seen) up to its switch: the pointer loop
\* (lines 377-400) and the default case.  at is the map the call goes on to
\* iterate, <<>> when the call returns without iterating.
flattenEntered(seen, leaves, at) == [seen |-> seen, leaves |-> leaves, at |-> at]

flattenEnter(rv, prefix, seen) ==
    CASE rv.k = "ptr" ->
            IF PointerOf(rv.at) \in seen THEN flattenEntered(seen, {}, <<>>)
            ELSE flattenEntered(seen \cup {PointerOf(rv.at)}, {}, rv.at)
      [] rv.k = "map" -> flattenEntered(seen, {}, rv.at)
      [] OTHER -> flattenEntered(seen, leafPath(prefix), <<>>)

\* the frame of a call that iterates the map at address at: todo holds the
\* keys MapRange has not yielded yet
flattenFrame(at, prefix, todo) == [at |-> at, prefix |-> prefix, todo |-> todo]

\* the call stack after a call entered: a frame more when it iterates a map
flattenCalled(w, calls, rv, prefix, e) ==
    IF e.at = <<>>
    THEN [w EXCEPT !.calls = calls, !.seen = e.seen, !.paths = @ \cup e.leaves]
    ELSE IF Len(calls) >= MaxDepth
    THEN [w EXCEPT !.pc = "overflow", !.calls = calls, !.seen = e.seen]
    ELSE [w EXCEPT !.calls = Append(calls, flattenFrame(e.at, prefix, DOMAIN w.heap[e.at])),
                   !.seen = e.seen]

(***************************************************************************)
(* trace.go: ToJSON and TraceFromJSON.  encoding/json writes a document    *)
(* whose values are null, booleans, numbers, strings, arrays and objects;  *)
(* the dynamic type of a Go value is not part of it.  A value held in an   *)
(* `any` is modelled with its dynamic type: GoValue("int", 1).             *)
(***************************************************************************)
GoNil == [type |-> "nil"]
GoBool(b) == [type |-> "bool", b |-> b]
GoInt(n) == [type |-> "int", n |-> n]
GoFloat64(n) == [type |-> "float64", n |-> n]
GoString(str) == [type |-> "string", s |-> str]

JSONNull == [j |-> "null"]
JSONBool(b) == [j |-> "bool", b |-> b]
JSONNumber(n) == [j |-> "number", n |-> n]
JSONString(str) == [j |-> "string", s |-> str]
JSONArray(items) == [j |-> "array", items |-> items]
JSONObject(members) == [j |-> "object", members |-> members]

NoWire == [pc |-> "idle"]

\* json.Marshal of the value in an `any`
marshalAny(value) ==
    CASE value.type = "nil" -> JSONNull
      [] value.type = "bool" -> JSONBool(value.b)
      [] value.type \in {"int", "float64"} -> JSONNumber(value.n)
      [] value.type = "string" -> JSONString(value.s)

\* Scope has no json tags: every field under its Go name; the nil Metadata
\* map is written as null
marshalScope(scope) ==
    JSONObject([n \in {"Name", "Label", "Priority", "Metadata"} |->
        CASE n = "Name" -> JSONString(scope.Name)
          [] n = "Label" -> JSONString(scope.Label)
          [] n = "Priority" -> JSONNumber(scope.Priority)
          [] n = "Metadata" -> JSONNull])

\* the members of a Provenance: snapshot_id and value carry omitempty
provenanceMembers(prov) ==
    {"scope", "path", "found"}
        \cup (IF prov.SnapshotID = <<>> THEN {} ELSE {"snapshot_id"})
        \cup (IF prov.Value = GoNil THEN {} ELSE {"value"})

marshalProvenance(prov) ==
    JSONObject([n \in provenanceMembers(prov) |->
        CASE n = "scope" -> marshalScope(prov.Scope)
          [] n = "snapshot_id" -> JSONString(prov.SnapshotID)
          [] n = "path" -> JSONString(prov.Path)
          [] n = "value" -> marshalAny(prov.Value)
          [] n = "found" -> JSONBool(prov.Found)])

\* Trace.ToJSON: json.Marshal(alias(t))
ToJSON(t) ==
    JSONObject([n \in {"path", "layers"} |->
        IF n = "path" THEN JSONString(t.Path)
        ELSE JSONArray([i \in 1..Len(t.Layers) |-> marshalProvenance(t.Layers[i])])])

\* json.Unmarshal into an `any`: a number becomes a float64
unmarshalAny(doc) ==
    CASE doc.j = "null" -> GoNil
      [] doc.j = "bool" -> GoBool(doc.b)
      [] doc.j = "number" -> GoFloat64(doc.n)
      [] doc.j = "string" -> GoString(doc.s)

\* json.Unmarshal into the typed fields of a Scope
unmarshalScope(doc) ==
    Scope(doc.members["Name"].s, doc.members["Label"].s, doc.members["Priority"].n, NilMap)

\* a member that is absent leaves the zero value of its field
unmarshalProvenance(doc) ==
    Provenance(unmarshalScope(doc.members["scope"]),
               IF "snapshot_id" \in DOMAIN doc.members THEN doc.members["snapshot_id"].s
               ELSE <<>>,
               doc.members["path"].s,
               IF "value" \in DOMAIN doc.members THEN unmarshalAny(doc.members["value"])
               ELSE GoNil,
               doc.members["found"].b)

\* TraceFromJSON: json.Unmarshal(payload, &trace)
TraceFromJSON(payload) ==
    Trace(payload.members["path"].s,
          [i \in 1..Len(payload.members["layers"].items) |->
              unmarshalProvenance(payload.members["layers"].items[i])])

NoStorage == [impl |-> "nil"]
NoMutation == [pc |-> "idle"]
NoSharing == [pc |-> "idle"]
NoDerivation == [pc |-> "idle"]

ServiceIdle ==
    /\ walk = NoWalk
    /\ wire = NoWire
    /\ storage = NoStorage
    /\ mutation = NoMutation
    /\ sharing = NoSharing
    /\ derivation = NoDerivation

(***************************************************************************)
(* options.go: Clone and WithValue.  The wrapper struct is copied to       *)
(* address p; its Value and the entries of its layers are copied as Go     *)
(* copies them, references included.                                       *)
(***************************************************************************)
\* a variant in which Clone hands back its receiver
OptionsClone_receiver(o, p) == o

OptionsClone(o, p) == IF o.nil THEN o ELSE [o EXCEPT !.self = p]

WithValue(o, value, p) ==
    IF o.nil THEN New(value, p) ELSE [OptionsClone(o, p) EXCEPT !.Value = value]

(***************************************************************************)
(* trace.go: LayerWith.  A panic of MergeLayers is a panic of LayerWith.   *)
(***************************************************************************)
Crashed == [nil |-> TRUE, crashed |-> TRUE]

layeredOptions(o, merged, p) ==
    IF merged = Panic THEN Crashed
    ELSE IF o.nil THEN New(merged, p)
    ELSE WithValue(o, merged, p)

\* a variant in which the current snapshot is the strongest layer
LayerWith_receiverFirst(t, o, ls, p) ==
    IF o.nil THEN (IF Len(ls) = 0 THEN NoOptions
                   ELSE layeredOptions(o, MergeLayers(t, ls, p \o <<"value">>), p))
    ELSE layeredOptions(o, MergeLayers(t, <<o.Value>> \o ls, p \o <<"value">>), p)

\* Options.LayerWith(layers...) for snapshots of type t
LayerWith(t, o, ls, p) ==
    IF o.nil THEN (IF Len(ls) = 0 THEN NoOptions
                   ELSE layeredOptions(o, MergeLayers(t, ls, p \o <<"value">>), p))
    ELSE layeredOptions(o, MergeLayers(t, ls \o <<o.Value>>, p \o <<"value">>), p)

(***************************************************************************)
(* options.go: Set.  The outcome is an error, a run-time panic, or one     *)
(* assignment `m[segment] = x` to the storage of an existing map.          *)
(***************************************************************************)
SetFailed(msg) == [status |-> "error", err |-> <<msg>>, addr |-> NoAddr, node |-> Invalid]
SetPanicked == [status |-> "panic", err |-> <<>>, addr |-> NoAddr, node |-> Invalid]
SetStored(a, node) == [status |-> "ok", err |-> <<>>, addr |-> a, node |-> node]

RECURSIVE freshMaps(_, _, _)
\* `next = map[string]any{}; m[segment] = next` for each of the remaining
\* intermediate segments, then the assignment of the value
freshMaps(segments, value, p) ==
    IF segments = <<>> THEN value
    ELSE Iface(Map(p, Head(segments) :>
                        freshMaps(Tail(segments), value, AtKey(p, Head(segments)))))

\* a Set that has written to the storage of a map before it returned
Wrote(stored) == stored.addr # NoAddr

\* an assignment that is followed by the return of an error
assignEntry_thenFail(m, segment, x) ==
    IF m.nil THEN SetPanicked
    ELSE [status |-> "error", err |-> <<"opts: path cannot assign segment">>,
          addr |-> m.addr, node |-> Map(m.addr, (segment :> x) @@ m.m)]

\* `m[segment] = x`: a panic when m is a nil map
assignEntry(m, segment, x) ==
    IF m.nil THEN SetPanicked
    ELSE SetStored(m.addr, Map(m.addr, (segment :> x) @@ m.m))

\* `current.(map[string]any)` on a dynamic value: the dynamic maps of the
\* model are all map[string]any
IsStringAnyMap(current) == current.k = "map"

RECURSIVE setInto(_, _, _, _, _)
\* the loop of Set from the node current on; isMap is the outcome of the
\* type assertion on current
setInto(current, isMap, segments, value, p) ==
    IF ~isMap
    THEN SetFailed(IF Len(segments) = 1 THEN "opts: path cannot assign segment"
                   ELSE "opts: path cannot traverse segment")
    ELSE IF Len(segments) = 1 THEN assignEntry(current, Head(segments), value)
    ELSE IF Head(segments) \in DOMAIN current.m
    THEN setInto(ToAny(current.m[Head(segments)]),
                 IsStringAnyMap(ToAny(current.m[Head(segments)])),
                 Tail(segments), value, p)
    ELSE assignEntry(current, Head(segments), freshMaps(Tail(segments), value, p))

\* the body of Set after splitPath
setSegments(t, o, segments, value, p) ==
    IF Failed(segments) THEN SetFailed(segments.err[1])
    ELSE setInto(o.Value, t.k = "map" /\ t.elem.k = "iface", segments.v, value, p)

\* Options.Set on a wrapper of snapshots of type t
Set(t, o, path, value, p) == setSegments(t, o, splitPath(path), value, p)

(***************************************************************************)
(* Writes through references.  A pointer, a map and a slice refer to       *)
(* storage; an assignment through one of them (`*p = x`, `m[k] = x`,        *)
(* `s[i] = x`) changes that storage, and with it every value that holds a  *)
(* reference to the same address.                                          *)
(***************************************************************************)
RECURSIVE Store(_, _, _)
\* the value v after the storage at address a has become that of node
Store(v, a, node) ==
    CASE v.k = "ptr" ->
            IF v.nil THEN v ELSE IF v.addr = a THEN node
            ELSE Ptr(v.addr, Store(v.elem, a, node))
      [] v.k = "iface" -> IF v.elem = Invalid THEN v ELSE Iface(Store(v.elem, a, node))
      [] v.k = "struct" -> Struct(v.tn, [n \in DOMAIN v.f |-> Store(v.f[n], a, node)])
      [] v.k = "map" ->
            IF v.nil THEN v ELSE IF v.addr = a THEN node
            ELSE Map(v.addr, [key \in DOMAIN v.m |-> Store(v.m[key], a, node)])
      [] v.k = "slice" ->
            IF v.nil THEN v ELSE IF v.addr = a THEN node
            ELSE Slice(v.addr, [i \in 1..Len(v.s) |-> Store(v.s[i], a, node)])
      [] v.k = "array" -> Array([i \in 1..Len(v.s) |-> Store(v.s[i], a, node)])
      [] OTHER -> v

StoreScope(sc, a, node) == [sc EXCEPT !.Metadata = Store(sc.Metadata, a, node)]

StoreLayer(l, a, node) ==
    [l EXCEPT !.Scope = StoreScope(l.Scope, a, node), !.Snapshot = Store(l.Snapshot, a, node)]

StoreLayers(ls, a, node) == [i \in 1..Len(ls) |-> StoreLayer(ls[i], a, node)]

StoreStack(s, a, node) == [s EXCEPT !.layers = StoreLayers(s.layers, a, node)]

StoreOptions(o, a, node) ==
    IF o.nil THEN o
    ELSE [o EXCEPT !.Value = Store(o.Value, a, node),
                   !.layers = StoreLayers(o.layers, a, node)]

StoreEntries(provs, a, node) ==
    [i \in 1..Len(provs) |->
        [provs[i] EXCEPT !.Scope = StoreScope(provs[i].Scope, a, node),
                         !.Value = Store(provs[i].Value, a, node)]]

StoreResolution(r, a, node) ==
    IF ~r.called THEN r
    ELSE [r EXCEPT !.value = Store(r.value, a, node),
                   !.trace.Layers = StoreEntries(r.trace.Layers, a, node)]

StoreFlattened(f, a, node) ==
    IF ~f.called THEN f ELSE [f EXCEPT !.results = StoreEntries(f.results, a, node)]

RECURSIVE Nodes(_)
\* the reference nodes of a value: what an assignment can go through
Nodes(v) ==
    CASE v.k = "ptr" -> IF v.nil THEN {} ELSE {v} \cup Nodes(v.elem)
      [] v.k = "iface" -> IF v.elem = Invalid THEN {} ELSE Nodes(v.elem)
      [] v.k = "struct" -> UNION {Nodes(v.f[n]) : n \in DOMAIN v.f}
      [] v.k = "map" -> IF v.nil THEN {} ELSE {v} \cup UNION {Nodes(v.m[key]) : key \in DOMAIN v.m}
      [] v.k = "slice" ->
            IF v.nil THEN {} ELSE {v} \cup UNION {Nodes(v.s[i]) : i \in 1..Len(v.s)}
      [] v.k = "array" -> UNION {Nodes(v.s[i]) : i \in 1..Len(v.s)}
      [] OTHER -> {}

\* the value the caller assigns: one that no snapshot holds
Written == Scalar(MaxScalar + 1)

\* an element for a map, boxed when the map holds dynamic values
WrittenElem(m) ==
    IF \E key \in DOMAIN m : m[key].k = "iface" THEN Iface(Written) ELSE Written

\* the storage of a node after one assignment through it: `*p = x`,
\* `delete(m, k)`, `m[k] = x`, `s[i] = x`
Assignments(node) ==
    CASE node.k = "ptr" ->
            IF node.elem.k = "scalar" THEN {Ptr(node.addr, Written)} ELSE {}
      [] node.k = "map" ->
            {Map(node.addr, [key \in DOMAIN node.m \ {k} |-> node.m[key]]) : k \in DOMAIN node.m}
            \cup {Map(node.addr, (k :> WrittenElem(node.m)) @@ node.m) : k \in Keys}
      [] node.k = "slice" ->
            {Slice(node.addr, [node.s EXCEPT ![i] = Written]) : i \in 1..Len(node.s)}

(***************************************************************************)
(* pkg/state: Ref, Meta, the Store implementations (MemoryStore and the    *)
(* mutateStore of the tests) and the steps of Resolver.Mutate.  The store  *)
(* is followed for the one key the driver's Ref identifies.  The snapshot  *)
(* type T is a map type with a Validate method.                            *)
(***************************************************************************)
TCfg == TMap({kA}, TScalar)

Meta(id, etag) == [SnapshotID |-> id, ETag |-> etag]
Ref(domain, scope) == [Domain |-> domain, Scope |-> scope]

ErrETagMismatch(expected, got) == Error("ErrETagMismatch", <<expected, got>>)

\* the metadata key of the scope's identifier: "user_id"
metadataKey(name) == name \o <<"_", "i", "d">>

\* Ref.Identifier fails: the scope is not one of the known ones, or its
\* identifier is missing from the metadata or empty (the scalar 0 stands
\* for the empty string)
IdentifierFails(ref) ==
    CASE ref.Scope.Name = <<"s", "y", "s", "t", "e", "m">> -> FALSE
      [] ref.Scope.Name \in {<<"t", "e", "n", "a", "n", "t">>, <<"o", "r", "g">>,
                             <<"t", "e", "a", "m">>, <<"u", "s", "e", "r">>} ->
            \/ ref.Scope.Metadata.nil
            \/ metadataKey(ref.Scope.Name) \notin DOMAIN ref.Scope.Metadata.m
            \/ ToAny(ref.Scope.Metadata.m[metadataKey(ref.Scope.Name)]) = Scalar(0)
      [] OTHER -> TRUE

Loaded(snapshot, meta, ok, err) == [snapshot |-> snapshot, meta |-> meta, ok |-> ok, err |-> err]

\* Store.Load: mutateStore.Load and MemoryStore.Load.  Both hand out the
\* snapshot they hold, as it is
StoreLoad(st, ref) ==
    CASE st.impl = "mutateStore" ->
            IF st.loadErr THEN Loaded(ZeroOf(TCfg), Meta(<<>>, <<>>), FALSE, Error("load", <<>>))
            ELSE Loaded(st.snapshot, st.meta, st.has, NoError)
      [] st.impl = "MemoryStore" ->
            IF IdentifierFails(ref)
            THEN Loaded(ZeroOf(TCfg), Meta(<<>>, <<>>), FALSE, Error("identifier", <<>>))
            ELSE IF ~st.has THEN Loaded(ZeroOf(TCfg), Meta(<<>>, <<>>), FALSE, NoError)
            ELSE Loaded(st.snapshot, st.meta, TRUE, NoError)

Saved(st, meta, err) == [storage |-> st, meta |-> meta, err |-> err]

\* Store.Save: mutateStore.Save counts the call and keeps what it was given;
\* MemoryStore.Save replaces the record
StoreSave(st, ref, snapshot, meta) ==
    CASE st.impl = "mutateStore" ->
            IF st.saveErr
            THEN Saved([st EXCEPT !.saveCalls = @ + 1, !.savedValue = snapshot],
                       Meta(<<>>, <<>>), Error("save", <<>>))
            ELSE Saved([st EXCEPT !.saveCalls = @ + 1, !.savedValue = snapshot],
                       st.saveReturn, NoError)
      [] st.impl = "MemoryStore" ->
            IF IdentifierFails(ref) THEN Saved(st, Meta(<<>>, <<>>), Error("identifier", <<>>))
            ELSE Saved([st EXCEPT !.has = TRUE, !.snapshot = snapshot, !.meta = meta],
                       meta, NoError)

\* mergeMeta(base, override)
mergeMeta(base, override) ==
    Meta(IF override.SnapshotID # <<>> THEN override.SnapshotID ELSE base.SnapshotID,
         IF override.ETag # <<>> THEN override.ETag ELSE base.ETag)

\* validateValue for T: its Validate method wants a non-zero entry under kA
validateValue(value) ==
    IF value.nil \/ kA \notin DOMAIN value.m \/ value.m[kA] = Scalar(0)
    THEN Error("a is required", <<>>)
    ELSE NoError

\* the snapshot after fn(&snapshot).  "assign" is `(*v)[kA] = n` (on a map
\* made first when *v is nil), "replace" is `*v = T{kA: n}`
mutatorApplied(fn, snapshot, p) ==
    IF fn.op = "assign" /\ ~snapshot.nil
    THEN Map(snapshot.addr, (kA :> Scalar(fn.n)) @@ snapshot.m)
    ELSE Map(p, kA :> Scalar(fn.n))

\* the store after the assignment: the record holds the map it handed out
StoreStorage(st, applied) ==
    IF st.impl = "nil" THEN st
    ELSE [st EXCEPT !.snapshot = Store(@, applied.addr, applied)]

\* what Mutate returns
Returned(m, wrapped, meta, err) ==
    [m EXCEPT !.pc = "returned", !.options = wrapped, !.outMeta = meta, !.err = err]

Event(step, ok) == [step |-> step, ok |-> ok]

\* Mutate up to the load: the checks of the arguments
mutateChecked(st, m) ==
    IF st.impl = "nil" THEN Error("state: store is required", <<>>)
    ELSE IF m.ref.Domain = <<>> THEN Error("state: domain is required", <<>>)
    ELSE IF m.ref.Scope.Name = <<>> THEN Error("state: scope name is required", <<>>)
    ELSE IF m.fn.op = "nil" THEN Error("state: mutator is required", <<>>)
    ELSE NoError

\* `if !ok { snapshot = zero; loadedMeta = Meta{} }`
loadedOrZero(l) ==
    IF l.ok THEN l ELSE Loaded(ZeroOf(TCfg), Meta(<<>>, <<>>), FALSE, l.err)

\* a variant that goes on whatever ETag the caller expected
mutateLoaded_etagUnchecked(m, l) ==
    IF l.err # NoError
    THEN Returned([m EXCEPT !.log = Append(@, Event("Load", FALSE))],
                  NoOptions, Meta(<<>>, <<>>), l.err)
    ELSE [m EXCEPT !.pc = "mutator",
                   !.log = @ \o <<Event("Load", TRUE), Event("ETag", TRUE)>>,
                   !.snapshot = loadedOrZero(l).snapshot,
                   !.loadedMeta = loadedOrZero(l).meta]

\* Mutate from the load to the ETag check
mutateLoaded(m, l) ==
    IF l.err # NoError
    THEN Returned([m EXCEPT !.log = Append(@, Event("Load", FALSE))],
                  NoOptions, Meta(<<>>, <<>>), l.err)
    ELSE IF /\ m.meta.ETag # <<>>
            /\ loadedOrZero(l).meta.ETag # <<>>
            /\ m.meta.ETag # loadedOrZero(l).meta.ETag
    THEN Returned([m EXCEPT !.log = @ \o <<Event("Load", TRUE), Event("ETag", FALSE)>>,
                            !.snapshot = loadedOrZero(l).snapshot,
                            !.loadedMeta = loadedOrZero(l).meta],
                  NoOptions, loadedOrZero(l).meta,
                  ErrETagMismatch(m.meta.ETag, loadedOrZero(l).meta.ETag))
    ELSE [m EXCEPT !.pc = "mutator",
                   !.log = @ \o <<Event("Load", TRUE), Event("ETag", TRUE)>>,
                   !.snapshot = loadedOrZero(l).snapshot,
                   !.loadedMeta = loadedOrZero(l).meta]

\* Mutate after a successful save: one layer, its stack, the merged wrapper
mutateWrapped(m, savedMeta) ==
    LET layer == NewLayer(TCfg, m.ref.Scope, m.snapshot, savedMeta.SnapshotID, <<"l">>)
        stacked == NewStack(TCfg, <<layer>>, <<"S">>)
    IN  IF stacked.err # NoError THEN Returned(m, NoOptions, m.loadedMeta, stacked.err)
        ELSE IF StackMerge(TCfg, stacked.stack, <<"O">>).err # NoError
        THEN Returned(m, NoOptions, m.loadedMeta, StackMerge(TCfg, stacked.stack, <<"O">>).err)
        ELSE Returned(m, StackMerge(TCfg, stacked.stack, <<"O">>).options, savedMeta, NoError)

(***************************************************************************)
(* evaluate.go, types.go: the fields of the wrapper an operation reads or  *)
(* writes, one access after the other.  An interface value such as         *)
(* cfg.evaluator is two words, its type and its data pointer, and an       *)
(* unsynchronised assignment stores them one at a time.                    *)
(***************************************************************************)
Evaluator(tab, data) == [tab |-> tab, data |-> data]
NoEvaluator == Evaluator("nil", <<>>)

\* NewExprEvaluator(): &exprEvaluator{}, a new one for every call
NewExprEvaluator(g) == Evaluator("*exprEvaluator", <<"e">> \o Itoa(g))

\* optionsConfig: the fields the operations below touch
Config(scope, evaluator, programCache, scopeSchema) ==
    [scope |-> scope, evaluator |-> evaluator, programCache |-> programCache,
     scopeSchema |-> scopeSchema]

Read(loc) == [loc |-> loc, kind |-> "read", word |-> "all"]
Write(loc, word) == [loc |-> loc, kind |-> "write", word |-> word]

\* the field accesses of the operations that take no branch on what they read
fieldAccesses(o, op) ==
    CASE op = "Get" -> <<Read("Value")>>
      [] op = "ResolveWithTrace" ->
            IF Len(o.layers) = 0 THEN <<Read("layers"), Read("Value"), Read("cfg.scope")>>
            ELSE <<Read("layers"), Read("Value")>>
      [] op = "FlattenWithProvenance" ->
            IF Len(o.layers) = 0
            THEN <<Read("Value"), Read("layers"), Read("Value"), Read("cfg.scope")>>
            ELSE <<Read("Value"), Read("layers"), Read("Value")>>
      [] op = "Schema" ->
            <<Read("cfg.schemaGenerator"), Read("Value"), Read("cfg.scopeSchema")>>
                \o (IF o.cfg.scopeSchema THEN <<Read("layers")>> ELSE <<>>)
      [] op \in {"Evaluate", "EvaluateWith"} -> <<Read("cfg.evaluator")>>

\* Evaluate and EvaluateWith after resolveEvaluator: the snapshot, the logger
evaluateRest == <<Read("Value"), Read("cfg.logger")>>

\* resolveEvaluator after `evaluator := o.evaluator()`: wordOrder is the
\* order in which o.withEvaluator(defaultEvaluator) stores the two words
resolveEvaluator(evaluator, wordOrder) ==
    IF evaluator.tab # "nil" THEN evaluateRest
    ELSE <<Read("cfg.programCache"), Read("cfg.functions"),
           Write("cfg.evaluator", wordOrder[1]), Write("cfg.evaluator", wordOrder[2])>>
         \o evaluateRest

\* o.cfg.evaluator = e, one word of it
withEvaluator(o, e, word) ==
    IF word = "tab" THEN [o EXCEPT !.cfg.evaluator.tab = e.tab]
    ELSE [o EXCEPT !.cfg.evaluator.data = e.data]

(***************************************************************************)
(* Driver of the merge primitive: the arguments are drawn from the values  *)
(* of one type, then MergeLayers, a two-value merge or Clone is applied.   *)
(***************************************************************************)
Family(t, arity) == [t |-> t, arity |-> arity]

MergeFamilies ==
    { Family(TStruct("plain"), {1, 2, 3}),
      Family(TStruct("settings"), {1, 2, 3}),
      Family(TPtr(TStruct("extras")), {2}),
      Family(TMap(Keys, TScalar), {1, 2}),
      Family(TMap(Keys, TIface(1)), {2}),
      Family(TSlice(TScalar), {1, 2}),
      Family(TArray(2, TPtr(TScalar)), {1, 2}),
      Family(TArray(2, TScalar), {1, 2}) }

ArgBase(i) == <<"arg">> \o Itoa(i)

NoResult == [called |-> FALSE]

NoData == <<>>

\* no accessor has been called and the caller holds nothing yet
AccessIdle ==
    /\ wrapper = NoOptions
    /\ flat = NoResult
    /\ caller = NoData
    /\ before = NoData

StackIdle ==
    /\ layers = <<>>
    /\ stack = NilStack
    /\ stackErr = NoError
    /\ options = NoOptions
    /\ mergeErr = NoError
    /\ resolved = NoResult

InitMerge ==
    /\ pc = "args"
    /\ \E fam \in MergeFamilies : \E n \in fam.arity : \E a \in [1..n -> Vals(fam.t)] :
          margs = [t |-> fam.t, a |-> [i \in 1..n |-> Alloc(a[i], ArgBase(i))]]
    /\ mop = "none"
    /\ mres = Invalid
    /\ StackIdle
    /\ AccessIdle
    /\ ServiceIdle

\* MergeLayers(layers...) on all the arguments
CallMergeLayers ==
    /\ pc = "args"
    /\ mres' = MergeLayers(margs.t, margs.a, <<"M">>)
    /\ mop' = "MergeLayers"
    /\ pc' = "done"
    /\ UNCHANGED <<margs, layers, stack, stackErr, options, mergeErr, resolved>>
    /\ UNCHANGED accessVars
    /\ UNCHANGED serviceVars

\* the two-value merge mergeValue(strong, weak)
CallMerge ==
    /\ pc = "args"
    /\ Len(margs.a) = 2
    /\ mres' = mergeValue(margs.a[1], margs.a[2], <<"m">>)
    /\ mop' = "Merge"
    /\ pc' = "done"
    /\ UNCHANGED <<margs, layers, stack, stackErr, options, mergeErr, resolved>>
    /\ UNCHANGED accessVars
    /\ UNCHANGED serviceVars

\* layering.Clone(value)
CallClone ==
    /\ pc = "args"
    /\ Len(margs.a) = 1
    /\ mres' = Clone(margs.t, margs.a[1], <<"c">>)
    /\ mop' = "Clone"
    /\ pc' = "done"
    /\ UNCHANGED <<margs, layers, stack, stackErr, options, mergeErr, resolved>>
    /\ UNCHANGED accessVars
    /\ UNCHANGED serviceVars

NextMerge == CallMergeLayers \/ CallMerge \/ CallClone

SpecMerge == InitMerge /\ [][NextMerge]_vars

(***************************************************************************)
(* Driver of the stack life cycle: layers built by NewScope and NewLayer   *)
(* are handed to NewStack, the stack is resolved by Stack.Merge, and the   *)
(* wrapper is queried by ResolveWithTrace.                                 *)
(***************************************************************************)
MaxLayers == 3      \* most layers handed to NewStack

\* the snapshot type of scope_stack_test.go, its Name and Labels carrying the
\* json tags of the traceSnapshot of options_trace_test.go
StackT == TStruct("sampleSnapshot")

sampleSnapshot(name, count, labels) ==
    Struct("sampleSnapshot", (fName :> Scalar(name)) @@ (fCount :> count) @@ (fLabels :> labels))

\* snapshots a caller hands over: every shape of the optional fields
StackSnapshots ==
    { sampleSnapshot(MaxScalar, Ptr(NoAddr, Scalar(MaxScalar)),
                     Map(NoAddr, kA :> Scalar(MaxScalar))),
      sampleSnapshot(0, NilPtr, NilMap),
      sampleSnapshot(0, Ptr(NoAddr, Scalar(0)),
                     Map(NoAddr, (kA :> Scalar(0)) @@ (kB :> Scalar(MaxScalar)))),
      sampleSnapshot(MaxScalar, NilPtr, Map(NoAddr, NoEntries)),
      sampleSnapshot(0, Ptr(NoAddr, Scalar(MaxScalar)), Map(NoAddr, kB :> Scalar(0))) }

DefaultSnapshot == sampleSnapshot(0, NilPtr, NilMap)

nUser == <<"u", "s", "e", "r">>
nGroup == <<"g", "r", "o", "u", "p">>
nDefaults == <<"d", "e", "f", "a", "u", "l", "t", "s">>

\* names a caller may give a scope, the missing name among them
ScopeNames == {<<>>, nUser, nGroup}

\* the scopes of a regular deployment: name, priority, metadata
RegularScopes ==
    { [name |-> nUser, priority |-> MaxPrio, metadata |-> Map(<<"md">>, kA :> Scalar(MaxScalar))],
      [name |-> nGroup, priority |-> MaxPrio - 1, metadata |-> NilMap],
      [name |-> nDefaults, priority |-> 1, metadata |-> Map(<<"md">>, NoEntries)] }

LayerBase(i) == <<"L">> \o Itoa(i)

\* NewLayer(NewScope(name, priority, WithScopeMetadata(metadata)), snapshot, WithSnapshotID(i))
BuildLayer(i, name, priority, metadata, snapshot) ==
    NewLayer(StackT,
             NewScope(name, priority, <<>>, metadata, LayerBase(i) \o <<"new">>),
             Alloc(snapshot, <<"caller">> \o Itoa(i)),
             Itoa(i),
             LayerBase(i))

\* layers with arbitrary names and priorities over one snapshot
ArbitraryLayers(ls) ==
    \E n \in 0..MaxLayers : \E names \in [1..n -> ScopeNames] : \E prios \in [1..n -> 1..MaxPrio] :
        ls = [i \in 1..n |-> BuildLayer(i, names[i], prios[i], NilMap, DefaultSnapshot)]

\* the regular scopes, any of them in any order, over arbitrary snapshots
RegularLayers(ls) ==
    \E n \in 1..Cardinality(RegularScopes) :
        \E sc \in [1..n -> RegularScopes] : \E sn \in [1..n -> StackSnapshots] :
            /\ \A i, j \in 1..n : sc[i] = sc[j] => i = j
            /\ ls = [i \in 1..n |->
                        BuildLayer(i, sc[i].name, sc[i].priority, sc[i].metadata, sn[i])]

\* the paths queried: "Name", "name", "Count", "labels.a", "Labels.b",
\* "Count.x", "Missing", "", " " and "Labels..a"
Paths ==
    { fName, tagName, fCount,
      (tagLabels \o <<".">>) \o kA,
      (fLabels \o <<".">>) \o kB,
      fCount \o <<".", "x">>,
      <<"M", "i", "s", "s", "i", "n", "g">>,
      <<>>,
      <<" ">>,
      (fLabels \o <<".", ".">>) \o kA }

\* the snapshot types wrapped by New: the struct of the README, a dynamic
\* map[string]any and a map[string]int
TApp == TStruct("AppOptions")
TDyn == TMap(Keys, TIface(1))
TTyped == TMap(Keys, TScalar)

AppOptions(timeout, retries) ==
    Struct("AppOptions", (fTimeout :> Scalar(timeout)) @@ (fRetries :> Scalar(retries)))

\* the layers of the README
defaults == AppOptions(30, 3)
groupDefaults == AppOptions(60, 0)
userSettings == AppOptions(0, 5)

\* dynamic snapshots beside those of Vals: a nil map, a slice, a struct and a
\* pointer below a key, and a map beside a scalar
DynExtras ==
    { Map(NoAddr, kA :> Iface(NilMap)),
      Map(NoAddr, kA :> Iface(Slice(NoAddr, <<Scalar(MaxScalar)>>))),
      Map(NoAddr, kA :> Iface(AppOptions(MaxScalar, 0))),
      Map(NoAddr, kA :> Iface(Ptr(NoAddr, Map(NoAddr, kA :> Iface(Scalar(MaxScalar)))))),
      Map(NoAddr, (kA :> Iface(Map(NoAddr, kA :> Iface(Scalar(MaxScalar)))))
                  @@ (kB :> Iface(Scalar(0)))) }

\* the values a wrapper is built around
WrapVals(t) ==
    CASE t = TApp -> Vals(TApp) \cup {defaults}
      [] t = TDyn -> Vals(TMap({kA}, TIface(1))) \cup DynExtras
      [] t = TTyped -> Vals(TMap({kA}, TScalar))

\* the values handed to WithValue and LayerWith
LayerVals(t) ==
    CASE t = TApp -> Vals(TApp)
      [] t = TDyn -> { NilMap,
                       Map(NoAddr, kA :> Iface(Scalar(MaxScalar))),
                       Map(NoAddr, kB :> Iface(Map(NoAddr, kA :> Iface(Scalar(0))))) }
      [] t = TTyped -> {NilMap, Map(NoAddr, kA :> Scalar(MaxScalar))}

\* values WithValue puts in place of the current one
Replacements(t) ==
    IF t = StackT
    THEN { sampleSnapshot(MaxScalar, Ptr(NoAddr, Scalar(MaxScalar)),
                          Map(NoAddr, (kA :> Scalar(MaxScalar)) @@ (kB :> Scalar(0)))),
           DefaultSnapshot }
    ELSE LayerVals(t)

\* the paths queried on those wrappers: "a", "b", "a.a", "a.b.a", "a.0",
\* "Timeout", "a.Timeout", "" and "a..a"
WrapPaths ==
    { kA, kB,
      (kA \o <<".">>) \o kA,
      (((kA \o <<".">>) \o kB) \o <<".">>) \o kA,
      kA \o <<".", "0">>,
      fTimeout,
      (kA \o <<".">>) \o fTimeout,
      <<>>,
      (kA \o <<".", ".">>) \o kA }

MergeIdle ==
    /\ margs = [t |-> StackT, a |-> <<>>]
    /\ mop = "none"
    /\ mres = Invalid

Init ==
    /\ pc = "built"
    /\ ArbitraryLayers(layers) \/ RegularLayers(layers)
    /\ stack = NilStack
    /\ stackErr = NoError
    /\ options = NoOptions
    /\ mergeErr = NoError
    /\ resolved = NoResult
    /\ MergeIdle
    /\ AccessIdle
    /\ ServiceIdle

\* stack, err := NewStack(layers...)
NewStackCall ==
    /\ pc = "built"
    /\ \E r \in {NewStack(StackT, layers, <<"S">>)} :
          /\ stack' = r.stack
          /\ stackErr' = r.err
    /\ pc' = "stacked"
    /\ UNCHANGED <<margs, mop, mres, layers, options, mergeErr, resolved>>
    /\ UNCHANGED accessVars
    /\ UNCHANGED serviceVars

\* options, err := stack.Merge()
MergeCall ==
    /\ pc = "stacked"
    /\ \E r \in {StackMerge(StackT, stack, <<"O">>)} :
          /\ options' = r.options
          /\ mergeErr' = r.err
    /\ pc' = "merged"
    /\ UNCHANGED <<margs, mop, mres, layers, stack, stackErr, resolved>>
    /\ UNCHANGED accessVars
    /\ UNCHANGED serviceVars

\* the paths that suit the snapshot type
QueryPaths == IF margs.t = StackT THEN Paths ELSE WrapPaths

\* the wrapper the accessors are called on: the derived one once there is one
Target == IF pc = "derived" THEN wrapper ELSE options

\* wrapper := options.WithValue(value)
WithValueCall ==
    /\ pc \in {"merged", "new"}
    /\ \E value \in Replacements(margs.t) :
          /\ wrapper' = WithValue(options, Alloc(value, <<"v">>), <<"W">>)
          /\ margs' = [margs EXCEPT !.a = <<Alloc(value, <<"v">>)>>]
    /\ mop' = "WithValue"
    /\ pc' = "derived"
    /\ UNCHANGED <<mres, layers, stack, stackErr, options, mergeErr, resolved>>
    /\ UNCHANGED <<flat, caller, before>>
    /\ UNCHANGED serviceVars

\* value, trace, err := target.ResolveWithTrace(path)
ResolveCall ==
    /\ pc \in {"merged", "derived"}
    /\ \E path \in Paths : resolved' = ResolveWithTrace(Target, path)
    /\ pc' = "resolved"
    /\ UNCHANGED <<margs, mop, mres, layers, stack, stackErr, options, mergeErr>>
    /\ UNCHANGED accessVars
    /\ UNCHANGED serviceVars

\* results, err := target.FlattenWithProvenance()
FlattenCall ==
    /\ pc \in {"merged", "derived"}
    /\ flat' = FlattenWithProvenance(Target)
    /\ pc' = "flattened"
    /\ UNCHANGED <<margs, mop, mres, layers, stack, stackErr, options, mergeErr, resolved>>
    /\ UNCHANGED <<wrapper, caller, before>>
    /\ UNCHANGED serviceVars

Next == NewStackCall \/ MergeCall \/ WithValueCall \/ ResolveCall \/ FlattenCall

Spec == Init /\ [][Next]_vars

(***************************************************************************)
(* Driver of the caller's writes: the caller keeps its original snapshots  *)
(* and metadata maps beside the layers built from them, calls the stack    *)
(* and the wrapper, and then assigns through one reference it holds.       *)
(***************************************************************************)
Original(i, metadata, snapshot) ==
    [snapshot |-> Alloc(snapshot, <<"caller">> \o Itoa(i)),
     metadata |-> Alloc(metadata, <<"meta">> \o Itoa(i))]

\* NewLayer(NewScope(name, priority, WithScopeMetadata(metadata)), snapshot, WithSnapshotID(i))
\* over the caller's originals
HeldLayer(i, name, priority, original) ==
    NewLayer(StackT,
             NewScope(name, priority, <<>>, original.metadata, LayerBase(i) \o <<"new">>),
             original.snapshot,
             Itoa(i),
             LayerBase(i))

\* a call on the wrapper recv with its arguments and what it returned
Called(op, recv, path, value, result) ==
    [called |-> TRUE, op |-> op, recv |-> recv, path |-> path, value |-> value,
     result |-> result]

Holding(origin, listed, got) == [origin |-> origin, listed |-> listed, got |-> got]

InitFrame ==
    /\ pc = "built"
    /\ \E n \in 1..(MaxLayers - 1) :
          \E sc \in [1..n -> RegularScopes] : \E sn \in [1..n -> StackSnapshots] :
            /\ \A i, j \in 1..n : sc[i] = sc[j] => i = j
            /\ caller = Holding([i \in 1..n |-> Original(i, sc[i].metadata, sn[i])],
                                NilLayers, NoResult)
            /\ layers = [i \in 1..n |->
                            HeldLayer(i, sc[i].name, sc[i].priority,
                                      Original(i, sc[i].metadata, sn[i]))]
    /\ stack = NilStack
    /\ stackErr = NoError
    /\ options = NoOptions
    /\ mergeErr = NoError
    /\ resolved = NoResult
    /\ MergeIdle
    /\ wrapper = NoOptions
    /\ flat = NoResult
    /\ before = NoData
    /\ ServiceIdle

\* listed := stack.Layers()
LayersCall ==
    /\ pc = "stacked"
    /\ caller' = [caller EXCEPT !.listed = StackLayers(StackT, stack, <<"out">>)]
    /\ pc' = "listed"
    /\ UNCHANGED <<margs, mop, mres, layers, stack, stackErr, options, mergeErr, resolved>>
    /\ UNCHANGED <<wrapper, flat, before>>
    /\ UNCHANGED serviceVars

\* value, err := options.Get(path)
GetCall ==
    /\ pc \in {"merged", "new"}
    /\ ~options.nil
    /\ \E path \in QueryPaths :
          caller' = [caller EXCEPT !.got = Called("Get", "options", path, Invalid,
                                                   Get(options, path))]
    /\ pc' = "got"
    /\ UNCHANGED <<margs, mop, mres, layers, stack, stackErr, options, mergeErr, resolved>>
    /\ UNCHANGED <<wrapper, flat, before>>
    /\ UNCHANGED serviceVars

\* the values the caller reaches through one of the things it holds
Held(via) ==
    CASE via = "origin" ->
            {caller.origin[i].snapshot : i \in 1..Len(caller.origin)}
            \cup {caller.origin[i].metadata : i \in 1..Len(caller.origin)}
      [] via = "layer" -> {layers[i].Snapshot : i \in 1..Len(layers)}
      [] via = "listed" ->
            {caller.listed.s[i].Snapshot : i \in 1..Len(caller.listed.s)}
            \cup {caller.listed.s[i].Scope.Metadata : i \in 1..Len(caller.listed.s)}
      [] via = "got" -> IF caller.got.called THEN {caller.got.result.v} ELSE {}
      [] via = "resolved" ->
            IF ~resolved.called THEN {}
            ELSE {resolved.value}
                 \cup {resolved.trace.Layers[i].Value : i \in 1..Len(resolved.trace.Layers)}
                 \cup {resolved.trace.Layers[i].Scope.Metadata :
                          i \in 1..Len(resolved.trace.Layers)}
      [] via = "flattened" ->
            IF ~flat.called THEN {}
            ELSE {flat.results[i].Value : i \in 1..Len(flat.results)}
                 \cup {flat.results[i].Scope.Metadata : i \in 1..Len(flat.results)}

\* the things the caller holds at each position of the program
Handles ==
    CASE pc \in {"built", "stacked"} -> {"origin", "layer"}
      [] pc = "listed" -> {"origin", "layer", "listed"}
      [] pc \in {"got", "resolved", "flattened"} -> {pc}
      [] OTHER -> {}

\* what the stack returns at this moment
ObservedStack(via) ==
    [via |-> via,
     held |-> caller,
     layers |-> layers,
     listed |-> StackLayers(StackT, stack, <<"out">>),
     merged |-> StackMerge(StackT, stack, <<"O">>)]

\* what the accessors of the wrapper return at this moment
ObservedOptions(via) ==
    [via |-> via,
     held |-> caller,
     get |-> [path \in Paths |-> Get(options, path)],
     resolve |-> [path \in Paths |-> ResolveWithTrace(options, path)],
     flatten |-> FlattenWithProvenance(options)]

Observed(via) ==
    IF via \in {"origin", "layer", "listed"} THEN ObservedStack(via) ELSE ObservedOptions(via)

\* the storage at address a takes the content of node, for every holder
WriteThrough(a, node) ==
    /\ layers' = StoreLayers(layers, a, node)
    /\ stack' = StoreStack(stack, a, node)
    /\ options' = StoreOptions(options, a, node)
    /\ resolved' = StoreResolution(resolved, a, node)
    /\ flat' = StoreFlattened(flat, a, node)
    /\ caller' =
          Holding([i \in 1..Len(caller.origin) |->
                      [snapshot |-> Store(caller.origin[i].snapshot, a, node),
                       metadata |-> Store(caller.origin[i].metadata, a, node)]],
                  [caller.listed EXCEPT !.s = StoreLayers(caller.listed.s, a, node)],
                  IF caller.got.called
                  THEN [caller.got EXCEPT !.result.v = Store(caller.got.result.v, a, node)]
                  ELSE caller.got)

\* one assignment by the caller through a reference it holds
CallerWrites ==
    /\ \E via \in Handles : \E v \in Held(via) : \E node \in Nodes(v) :
          \E new \in Assignments(node) :
            /\ WriteThrough(node.addr, new)
            /\ before' = Observed(via)
    /\ pc' = "written"
    /\ UNCHANGED <<margs, mop, mres, stackErr, mergeErr, wrapper>>
    /\ UNCHANGED serviceVars

NextFrame ==
    \/ NewStackCall \/ LayersCall \/ MergeCall \/ GetCall \/ ResolveCall \/ FlattenCall
    \/ CallerWrites

SpecFrame == InitFrame /\ [][NextFrame]_vars

(***************************************************************************)
(* Driver of the wrapper: New around a value of one of the snapshot types  *)
(* (or no wrapper at all), then Get or Set, or Clone, WithValue or         *)
(* LayerWith followed by a Set or a field assignment on either wrapper.    *)
(***************************************************************************)
InitWrap ==
    /\ pc = "new"
    /\ \E t \in {TApp, TDyn, TTyped} : \E v \in WrapVals(t) :
          /\ margs = [t |-> t, a |-> <<>>]
          /\ options \in {New(Alloc(v, <<"value">>), <<"O">>), NoOptions}
          /\ caller = Holding(<<[snapshot |-> Alloc(v, <<"value">>), metadata |-> NilMap]>>,
                              NilLayers, NoResult)
    /\ mop = "none"
    /\ mres = Invalid
    /\ layers = <<>>
    /\ stack = NilStack
    /\ stackErr = NoError
    /\ mergeErr = NoError
    /\ resolved = NoResult
    /\ wrapper = NoOptions
    /\ flat = NoResult
    /\ before = NoData
    /\ ServiceIdle

\* wrapper := options.Clone()
OptionsCloneCall ==
    /\ pc = "new"
    /\ wrapper' = OptionsClone(options, <<"W">>)
    /\ mop' = "Clone"
    /\ pc' = "derived"
    /\ UNCHANGED <<margs, mres, layers, stack, stackErr, options, mergeErr, resolved>>
    /\ UNCHANGED <<flat, caller, before>>
    /\ UNCHANGED serviceVars

\* the layer lists handed to LayerWith: up to MaxLen layers, and the README's
LayerLists(t) ==
    UNION {[1..n -> LayerVals(t)] : n \in 0..MaxLen}
    \cup (IF t = TApp THEN {<<userSettings, groupDefaults>>} ELSE {})

\* wrapper := options.LayerWith(ls...)
LayerWithCall ==
    /\ pc = "new"
    /\ \E ls \in LayerLists(margs.t) :
          /\ margs' = [margs EXCEPT !.a = [i \in 1..Len(ls) |-> Alloc(ls[i], ArgBase(i))]]
          /\ wrapper' = LayerWith(margs.t, options,
                                  [i \in 1..Len(ls) |-> Alloc(ls[i], ArgBase(i))], <<"W">>)
    /\ mop' = "LayerWith"
    /\ pc' = "derived"
    /\ UNCHANGED <<mres, layers, stack, stackErr, options, mergeErr, resolved>>
    /\ UNCHANGED <<flat, caller, before>>
    /\ UNCHANGED serviceVars

\* the wrappers a method can be called on
Receivers ==
    {r \in {"options"} : ~options.nil}
    \cup {r \in {"wrapper"} : pc = "derived" /\ ~wrapper.nil}

Receiver(r) == IF r = "wrapper" THEN wrapper ELSE options

\* the values a caller hands to Set
SetValues == {Iface(Written), NilIface}

\* both wrappers as they are before a call
Prior(r) == [via |-> r, options |-> options, wrapper |-> wrapper]

\* the effect of a Set on everything that holds the map assigned to
setEffect(r, stored) ==
    IF ~Wrote(stored) THEN UNCHANGED <<options, wrapper>>
    ELSE /\ options' = StoreOptions(options, stored.addr, stored.node)
         /\ wrapper' = StoreOptions(wrapper, stored.addr, stored.node)

\* err := r.Set(path, value)
SetCall ==
    /\ pc \in {"new", "derived"}
    /\ \E r \in Receivers : \E path \in WrapPaths : \E value \in SetValues :
          \E stored \in {Set(margs.t, Receiver(r), path, value, <<"set">>)} :
            /\ setEffect(r, stored)
            /\ caller' = [caller EXCEPT !.got = Called("Set", r, path, value, stored)]
            /\ before' = Prior(r)
    /\ pc' = "mutated"
    /\ UNCHANGED <<margs, mop, mres, layers, stack, stackErr, mergeErr, resolved, flat>>
    /\ UNCHANGED serviceVars

\* the wrapper struct at address self after `Value.n = x`
assignField(o, self, n, x) ==
    IF o.nil \/ o.self # self THEN o
    ELSE [o EXCEPT !.Value = Struct(o.Value.tn, [o.Value.f EXCEPT ![n] = x])]

\* r.Value.n = x, for a struct snapshot
AssignCall ==
    /\ pc = "derived"
    /\ margs.t.k = "struct"
    /\ \E r \in Receivers : \E n \in FieldNames(margs.t.tn) :
          /\ options' = assignField(options, Receiver(r).self, n, Written)
          /\ wrapper' = assignField(wrapper, Receiver(r).self, n, Written)
          /\ caller' = [caller EXCEPT !.got = Called("Assign", r, n, Written, NoError)]
          /\ before' = Prior(r)
    /\ pc' = "mutated"
    /\ UNCHANGED <<margs, mop, mres, layers, stack, stackErr, mergeErr, resolved, flat>>
    /\ UNCHANGED serviceVars

NextWrap ==
    \/ GetCall \/ SetCall \/ OptionsCloneCall \/ WithValueCall \/ LayerWithCall \/ AssignCall

SpecWrap == InitWrap /\ [][NextWrap]_vars

(***************************************************************************)
(* Driver of the traversal: the caller builds two maps that may hold each  *)
(* other, themselves, or pointers to the variables holding them, wraps one *)
(* of them (or a pointer to it) and calls FlattenWithProvenance.  A call   *)
(* that needs a frame the goroutine stack has no room for ends the process *)
(* (fatal error: stack overflow).                                          *)
(***************************************************************************)
m1 == <<"m", "1">>
m2 == <<"m", "2">>
MapAddrs == {m1, m2}

\* what the caller stores under a key
GraphValues == {Scalar(1)} \cup {MapAt(a) : a \in MapAddrs} \cup {PtrTo(a) : a \in MapAddrs}

\* the maps the caller can build over Keys
GraphMaps == UNION {[ks -> GraphValues] : ks \in SUBSET Keys}

InitWalk ==
    /\ pc = "graph"
    /\ \E heap \in [MapAddrs -> GraphMaps] : \E root \in {MapAt(m1), PtrTo(m1)} :
          /\ DOMAIN heap[m2] \subseteq {kA}
          /\ walk = [pc |-> "held", heap |-> heap, root |-> root,
                     calls |-> <<>>, seen |-> {}, paths |-> {}]
    /\ MergeIdle
    /\ StackIdle
    /\ AccessIdle
    /\ wire = NoWire
    /\ storage = NoStorage
    /\ mutation = NoMutation
    /\ sharing = NoSharing
    /\ derivation = NoDerivation

\* paths := collectPaths(o.Value): the first call of flattenValue
collectPathsCall ==
    /\ walk.pc = "held"
    /\ walk' = flattenCalled([walk EXCEPT !.pc = "walking"], <<>>, walk.root, <<>>,
                             flattenEnter(walk.root, <<>>, {}))
    /\ UNCHANGED exceptWalk

\* the innermost call, were it to hand the entry under key to flattenValue
flattenNext(key) ==
    LET top == walk.calls[Len(walk.calls)]
        prefix == appendPathSegment(top.prefix, key)
    IN  flattenCalled(walk,
                      [walk.calls EXCEPT ![Len(walk.calls)].todo = @ \ {key}],
                      walk.heap[top.at][key], prefix,
                      flattenEnter(walk.heap[top.at][key], prefix, walk.seen))

\* flattenValue(iter.Value(), appendPathSegment(prefix, key), paths, seen)
flattenValueCall ==
    /\ walk.pc = "walking"
    /\ walk.calls # <<>>
    /\ \E key \in walk.calls[Len(walk.calls)].todo :
          /\ flattenNext(key).pc # "overflow"
          /\ walk' = flattenNext(key)
    /\ UNCHANGED exceptWalk

\* the same call when the stack is exhausted
stackOverflow ==
    /\ walk.pc = "walking"
    /\ walk.calls # <<>>
    /\ \E key \in walk.calls[Len(walk.calls)].todo :
          /\ flattenNext(key).pc = "overflow"
          /\ walk' = flattenNext(key)
    /\ UNCHANGED exceptWalk

\* MapRange is exhausted: the innermost call returns
flattenValueReturn ==
    /\ walk.pc = "walking"
    /\ walk.calls # <<>>
    /\ walk.calls[Len(walk.calls)].todo = {}
    /\ walk' = [walk EXCEPT !.calls = SubSeq(@, 1, Len(@) - 1)]
    /\ UNCHANGED exceptWalk

\* collectPaths returns the sorted keys; the loop over them resolves one
\* path after the other and FlattenWithProvenance returns
collectPathsReturn ==
    /\ walk.pc = "walking"
    /\ walk.calls = <<>>
    /\ walk' = [walk EXCEPT !.pc = "returned"]
    /\ UNCHANGED exceptWalk

NextWalk ==
    \/ collectPathsCall \/ flattenValueCall \/ stackOverflow
    \/ flattenValueReturn \/ collectPathsReturn

\* the goroutine runs on as long as it can
SpecWalk == InitWalk /\ [][NextWalk]_vars /\ WF_vars(NextWalk)

(***************************************************************************)
(* Driver of the serialisation: a Trace as ResolveWithTrace builds it, one *)
(* Provenance per layer, is written with ToJSON and read back.             *)
(***************************************************************************)
\* the values a layer can supply at a scalar path
GoValues ==
    {GoNil} \cup {GoBool(b) : b \in BOOLEAN}
            \cup {GoInt(n) : n \in 0..MaxScalar}
            \cup {GoFloat64(n) : n \in 0..MaxScalar}
            \cup {GoString(str) : str \in {<<>>, kA}}

idABC == <<"a", "b", "c", "-", "1", "2", "3">>

\* the entries of a trace over the path kA
TraceEntries ==
    {Provenance(Scope(sc[1], <<>>, sc[2], NilMap), sc[3], kA, value, found) :
        sc \in {<<nUser, MaxPrio, idABC>>, <<nDefaults, 1, <<>>>>},
        value \in GoValues, found \in BOOLEAN}

InitWire ==
    /\ pc = "trace"
    /\ \E n \in 0..MaxLen : \E entries \in [1..n -> TraceEntries] :
          wire = [pc |-> "built", trace |-> Trace(kA, entries),
                  payload |-> JSONNull, restore |-> Trace(<<>>, <<>>)]
    /\ MergeIdle
    /\ StackIdle
    /\ AccessIdle
    /\ walk = NoWalk
    /\ storage = NoStorage
    /\ mutation = NoMutation
    /\ sharing = NoSharing
    /\ derivation = NoDerivation

\* raw, err := trace.ToJSON()
ToJSONCall ==
    /\ wire.pc = "built"
    /\ wire' = [wire EXCEPT !.pc = "written", !.payload = ToJSON(wire.trace)]
    /\ UNCHANGED exceptWire

\* restore, err := TraceFromJSON(raw)
TraceFromJSONCall ==
    /\ wire.pc = "written"
    /\ wire' = [wire EXCEPT !.pc = "read", !.restore = TraceFromJSON(wire.payload)]
    /\ UNCHANGED exceptWire

NextWire == ToJSONCall \/ TraceFromJSONCall

SpecWire == InitWire /\ [][NextWire]_vars

(***************************************************************************)
(* Driver of the state package: a store that may hold a snapshot for the   *)
(* Ref, one Resolver.Mutate call taken step by step (load and ETag check,  *)
(* mutator, validation, save), and a Load of the same Ref after it.        *)
(***************************************************************************)
etagV1 == <<"v", "1">>
etagV2 == <<"v", "2">>

\* the snapshots a store can hold
StoredSnapshots == Vals(TCfg) \ {NilMap}

\* a store holding (or, with has = FALSE, not holding) a snapshot for the Ref
StoreOf(impl, has, snapshot, etag, loadErr, saveErr) ==
    [impl |-> impl, has |-> has, snapshot |-> Alloc(snapshot, <<"rec">>),
     meta |-> Meta(<<"s", "1">>, etag), loadErr |-> loadErr, saveErr |-> saveErr,
     saveReturn |-> Meta(<<"s", "2">>, <<"v", "2">>), saveCalls |-> 0, savedValue |-> NilMap]

\* the stores: none, the mutateStore of the tests with the errors it can be
\* told to return, a MemoryStore
Stores ==
    {NoStorage}
    \cup {StoreOf("mutateStore", has, snapshot, etag, loadErr, saveErr) :
             has \in BOOLEAN, snapshot \in StoredSnapshots, etag \in {<<>>, etagV1},
             loadErr \in BOOLEAN, saveErr \in BOOLEAN}
    \cup {StoreOf("MemoryStore", has, snapshot, etag, FALSE, FALSE) :
             has \in BOOLEAN, snapshot \in StoredSnapshots, etag \in {<<>>, etagV1}}

\* the scopes of the Ref: user with and without its user_id, one without a
\* name, one that Identifier does not know
RefScopes ==
    {Scope(nUser, <<>>, MaxPrio, Map(<<"ref">>, metadataKey(nUser) :> Iface(Scalar(1)))),
     Scope(nUser, <<>>, MaxPrio, NilMap),
     Scope(<<>>, <<>>, MaxPrio, NilMap),
     Scope(nGroup, <<>>, MaxPrio, NilMap)}

Mutators ==
    {[op |-> "nil", n |-> 0, fails |-> FALSE]}
    \cup {[op |-> op, n |-> n, fails |-> fails] :
             op \in {"assign", "replace"}, n \in 0..MaxScalar, fails \in BOOLEAN}

InitState ==
    /\ pc = "state"
    /\ storage \in Stores
    /\ \E domain \in {<<>>, <<"d">>} : \E scope \in RefScopes :
       \E etag \in {<<>>, etagV1, etagV2} : \E fn \in Mutators :
          /\ (domain = <<>> \/ scope.Name = <<>> \/ fn.op = "nil" \/ storage = NoStorage)
                => (etag = <<>> /\ scope.Metadata.nil)
          /\ mutation = [pc |-> "called", ref |-> Ref(domain, scope), meta |-> Meta(<<>>, etag),
                         fn |-> fn, snapshot |-> NilMap, loadedMeta |-> Meta(<<>>, <<>>),
                         log |-> <<>>, options |-> NoOptions, outMeta |-> Meta(<<>>, <<>>),
                         err |-> NoError,
                         prior |-> IF storage = NoStorage THEN NilMap ELSE storage.snapshot,
                         reload |-> Loaded(NilMap, Meta(<<>>, <<>>), FALSE, NoError)]
    /\ MergeIdle
    /\ StackIdle
    /\ AccessIdle
    /\ walk = NoWalk
    /\ wire = NoWire
    /\ sharing = NoSharing
    /\ derivation = NoDerivation

\* Resolver.Mutate: the checks of its arguments
MutateCall ==
    /\ mutation.pc = "called"
    /\ mutation' = IF mutateChecked(storage, mutation) # NoError
                   THEN Returned(mutation, NoOptions, Meta(<<>>, <<>>),
                                 mutateChecked(storage, mutation))
                   ELSE [mutation EXCEPT !.pc = "load"]
    /\ UNCHANGED storage
    /\ UNCHANGED exceptState

\* snapshot, loadedMeta, ok, err := r.Store.Load(ctx, ref), and the ETag check
MutateLoad ==
    /\ mutation.pc = "load"
    /\ mutation' = mutateLoaded(mutation, StoreLoad(storage, mutation.ref))
    /\ UNCHANGED storage
    /\ UNCHANGED exceptState

\* err := fn(&snapshot)
MutateApply ==
    /\ mutation.pc = "mutator"
    /\ \E applied \in {mutatorApplied(mutation.fn, mutation.snapshot, <<"fn">>)} :
          /\ storage' = StoreStorage(storage, applied)
          /\ mutation' =
                IF mutation.fn.fails
                THEN Returned([mutation EXCEPT !.snapshot = applied,
                                               !.log = Append(@, Event("fn", FALSE))],
                              NoOptions, mutation.loadedMeta, Error("mutator", <<>>))
                ELSE [mutation EXCEPT !.pc = "validate", !.snapshot = applied,
                                      !.log = Append(@, Event("fn", TRUE))]
    /\ UNCHANGED exceptState

\* _, err := opts.Load(snapshot)
MutateValidate ==
    /\ mutation.pc = "validate"
    /\ mutation' =
          IF validateValue(mutation.snapshot) # NoError
          THEN Returned([mutation EXCEPT !.log = Append(@, Event("Validate", FALSE))],
                        NoOptions, mutation.loadedMeta, validateValue(mutation.snapshot))
          ELSE [mutation EXCEPT !.pc = "save", !.log = Append(@, Event("Validate", TRUE))]
    /\ UNCHANGED storage
    /\ UNCHANGED exceptState

\* savedMeta, err := r.Store.Save(ctx, ref, snapshot, saveMeta), then the
\* wrapper over the one saved layer
MutateSave ==
    /\ mutation.pc = "save"
    /\ \E saved \in {StoreSave(storage, mutation.ref, mutation.snapshot,
                               mergeMeta(mutation.loadedMeta, mutation.meta))} :
          /\ storage' = saved.storage
          /\ mutation' =
                IF saved.err # NoError
                THEN Returned([mutation EXCEPT !.log = Append(@, Event("Save", FALSE))],
                              NoOptions, mutation.loadedMeta, saved.err)
                ELSE mutateWrapped([mutation EXCEPT !.log = Append(@, Event("Save", TRUE))],
                                   saved.meta)
    /\ UNCHANGED exceptState

\* a Load of the same Ref after Mutate returned
LoadAfter ==
    /\ mutation.pc = "returned"
    /\ storage # NoStorage
    /\ mutation' = [mutation EXCEPT !.pc = "reloaded",
                                    !.reload = StoreLoad(storage, mutation.ref)]
    /\ UNCHANGED storage
    /\ UNCHANGED exceptState

NextState ==
    \/ MutateCall \/ MutateLoad \/ MutateApply \/ MutateValidate \/ MutateSave \/ LoadAfter

SpecState == InitState /\ [][NextState]_vars

(***************************************************************************)
(* Driver of the shared wrapper: goroutines call the read operations on    *)
(* one wrapper, with no lock between them, each access a step of its own.  *)
(***************************************************************************)
MaxCallers == 2     \* goroutines sharing the wrapper

Callers == 1..MaxCallers

\* the values the shared wrapper holds
SharedValues == {v \in Vals(TCfg) : ~v.nil}

ReadOperations ==
    {"Get", "ResolveWithTrace", "FlattenWithProvenance", "Schema", "Evaluate", "EvaluateWith"}

Goroutine(op, at, todo, evaluator) ==
    [op |-> op, at |-> at, todo |-> todo, evaluator |-> evaluator]
Waiting == Goroutine("none", "waiting", <<>>, NoEvaluator)

InitShared ==
    /\ pc = "shared"
    /\ \E evaluator \in {NoEvaluator, Evaluator("custom", <<"c">>)} :
       \E scopeSchema \in BOOLEAN : \E v \in SharedValues :
          options = [New(Alloc(v, <<"value">>), <<"O">>) EXCEPT
                        !.cfg = Config(ZeroScope, evaluator, <<>>, scopeSchema)]
    /\ sharing = [pc |-> "running", initial |-> options,
                  callers |-> [g \in Callers |-> Waiting]]
    /\ MergeIdle
    /\ layers = <<>>
    /\ stack = NilStack
    /\ stackErr = NoError
    /\ mergeErr = NoError
    /\ resolved = NoResult
    /\ AccessIdle
    /\ walk = NoWalk
    /\ wire = NoWire
    /\ storage = NoStorage
    /\ mutation = NoMutation
    /\ derivation = NoDerivation

\* a goroutine calls one of the read operations
CallOperation ==
    /\ sharing.pc = "running"
    /\ \E g \in Callers : \E op \in ReadOperations :
          /\ sharing.callers[g] = Waiting
          /\ sharing' = [sharing EXCEPT
                            !.callers[g] = Goroutine(op, "called", fieldAccesses(options, op),
                                                     NoEvaluator)]
    /\ UNCHANGED options
    /\ UNCHANGED exceptSharing

\* the next access of a goroutine is a read of a field
ReadField ==
    /\ sharing.pc = "running"
    /\ \E g \in Callers :
          /\ sharing.callers[g].todo # <<>>
          /\ Head(sharing.callers[g].todo).kind = "read"
          /\ Head(sharing.callers[g].todo).loc # "cfg.evaluator"
          /\ sharing' = [sharing EXCEPT !.callers[g].todo = Tail(@)]
    /\ UNCHANGED options
    /\ UNCHANGED exceptSharing

\* evaluator := o.evaluator() in resolveEvaluator, and the branch on it
ReadEvaluator ==
    /\ sharing.pc = "running"
    /\ \E g \in Callers : \E wordOrder \in {<<"tab", "data">>, <<"data", "tab">>} :
          /\ sharing.callers[g].todo # <<>>
          /\ Head(sharing.callers[g].todo) = Read("cfg.evaluator")
          /\ sharing' = [sharing EXCEPT
                            !.callers[g].todo = resolveEvaluator(options.cfg.evaluator, wordOrder),
                            !.callers[g].evaluator =
                                IF options.cfg.evaluator.tab # "nil" THEN options.cfg.evaluator
                                ELSE NewExprEvaluator(g)]
    /\ UNCHANGED options
    /\ UNCHANGED exceptSharing

\* o.withEvaluator(defaultEvaluator): one word is stored
WriteEvaluator ==
    /\ sharing.pc = "running"
    /\ \E g \in Callers :
          /\ sharing.callers[g].todo # <<>>
          /\ Head(sharing.callers[g].todo).kind = "write"
          /\ options' = withEvaluator(options, sharing.callers[g].evaluator,
                                      Head(sharing.callers[g].todo).word)
          /\ sharing' = [sharing EXCEPT !.callers[g].todo = Tail(@)]
    /\ UNCHANGED exceptSharing

\* the operation returns
ReturnOperation ==
    /\ sharing.pc = "running"
    /\ \E g \in Callers :
          /\ sharing.callers[g].at = "called"
          /\ sharing.callers[g].todo = <<>>
          /\ sharing' = [sharing EXCEPT !.callers[g].at = "returned"]
    /\ UNCHANGED options
    /\ UNCHANGED exceptSharing

NextShared ==
    \/ CallOperation \/ ReadField \/ ReadEvaluator \/ WriteEvaluator \/ ReturnOperation

SpecShared == InitShared /\ [][NextShared]_vars

(***************************************************************************)
(* Driver of the derived wrappers: a wrapper comes from Stack.Merge over   *)
(* layers of map snapshots; Clone, WithValue, LayerWith and Set are        *)
(* applied to the latest wrapper, in any order, and a path is then asked   *)
(* of it with Get and with ResolveWithTrace.                               *)
(***************************************************************************)
MaxSteps == 2       \* derivations applied to the merged wrapper

StepBase(n) == <<"D">> \o Itoa(n)

RECURSIVE MapsAndScalars(_)
\* v is built of scalars and non-nil maps only
MapsAndScalars(v) ==
    CASE v.k = "scalar" -> TRUE
      [] v.k = "iface" -> v.elem # Invalid /\ MapsAndScalars(v.elem)
      [] v.k = "map" -> ~v.nil /\ \A key \in DOMAIN v.m : MapsAndScalars(v.m[key])
      [] OTHER -> FALSE

\* the snapshots of the layers: non-nil maps of scalars and of such maps
DeriveSnapshots(t) ==
    {v \in Vals(TMap({kA}, t.elem)) \cup LayerVals(t) : MapsAndScalars(v)}

\* the paths asked: "a", "b", "a.a" and "b.a"
DerivePaths == {kA, kB, (kA \o <<".">>) \o kA, (kB \o <<".">>) \o kA}

DeriveLayer(t, i, name, snapshot) ==
    NewLayer(t, NewScope(name, i, <<>>, NilMap, LayerBase(i) \o <<"new">>),
             Alloc(snapshot, <<"caller">> \o Itoa(i)), Itoa(i), LayerBase(i))

InitDerive ==
    /\ pc = "deriving"
    /\ \E t \in {TDyn, TTyped} : \E n \in 1..2 : \E sn \in [1..n -> DeriveSnapshots(t)] :
          /\ margs = [t |-> t, a |-> <<>>]
          /\ layers = [i \in 1..n |-> DeriveLayer(t, i, <<nUser, nGroup>>[i], sn[i])]
    /\ stack = NewStack(margs.t, layers, <<"S">>).stack
    /\ stackErr = NoError
    /\ options = StackMerge(margs.t, stack, <<"O">>).options
    /\ mergeErr = NoError
    /\ wrapper = options
    /\ derivation = [pc |-> "deriving", log |-> <<>>, got |-> NoResult]
    /\ mop = "none"
    /\ mres = Invalid
    /\ resolved = NoResult
    /\ flat = NoResult
    /\ caller = NoData
    /\ before = NoData
    /\ walk = NoWalk
    /\ wire = NoWire
    /\ storage = NoStorage
    /\ mutation = NoMutation
    /\ sharing = NoSharing

exceptDerive == <<margs, mres, layers, stack, stackErr, mergeErr, flat, caller, before,
                  walk, wire, storage, mutation, sharing>>

Deriving ==
    /\ pc = "deriving"
    /\ Len(derivation.log) < MaxSteps
    /\ ~wrapper.nil

Derived(op) ==
    /\ mop' = op
    /\ derivation' = [derivation EXCEPT !.log = Append(@, op)]
    /\ UNCHANGED <<pc, resolved>>
    /\ UNCHANGED exceptDerive

\* wrapper = wrapper.Clone()
DeriveClone ==
    /\ Deriving
    /\ wrapper' = OptionsClone(wrapper, StepBase(Len(derivation.log)))
    /\ UNCHANGED options
    /\ Derived("Clone")

\* wrapper = wrapper.WithValue(value)
DeriveWithValue ==
    /\ Deriving
    /\ \E value \in LayerVals(margs.t) :
          wrapper' = WithValue(wrapper, Alloc(value, StepBase(Len(derivation.log)) \o <<"v">>),
                               StepBase(Len(derivation.log)))
    /\ UNCHANGED options
    /\ Derived("WithValue")

\* wrapper = wrapper.LayerWith(value)
DeriveLayerWith ==
    /\ Deriving
    /\ \E value \in LayerVals(margs.t) :
          wrapper' = LayerWith(margs.t, wrapper,
                               <<Alloc(value, StepBase(Len(derivation.log)) \o <<"v">>)>>,
                               StepBase(Len(derivation.log)))
    /\ UNCHANGED options
    /\ Derived("LayerWith")

\* err := wrapper.Set(path, value); the error, if any, is dropped
DeriveSet ==
    /\ Deriving
    /\ \E path \in DerivePaths :
          \E stored \in {Set(margs.t, wrapper, path, Iface(Written),
                             StepBase(Len(derivation.log)) \o <<"set">>)} :
            /\ stored.status # "panic"
            /\ IF ~Wrote(stored) THEN UNCHANGED <<options, wrapper>>
               ELSE /\ options' = StoreOptions(options, stored.addr, stored.node)
                    /\ wrapper' = StoreOptions(wrapper, stored.addr, stored.node)
    /\ Derived("Set")

\* got, err := wrapper.Get(path); value, trace, err := wrapper.ResolveWithTrace(path)
DeriveQuery ==
    /\ pc = "deriving"
    /\ ~wrapper.nil
    /\ \E path \in DerivePaths :
          /\ derivation' = [derivation EXCEPT !.pc = "queried",
                                              !.got = Called("Get", "wrapper", path, Invalid,
                                                             Get(wrapper, path))]
          /\ resolved' = ResolveWithTrace(wrapper, path)
    /\ pc' = "queried"
    /\ UNCHANGED <<options, wrapper, mop>>
    /\ UNCHANGED exceptDerive

NextDerive ==
    \/ DeriveClone \/ DeriveWithValue \/ DeriveLayerWith \/ DeriveSet \/ DeriveQuery

SpecDerive == InitDerive /\ [][NextDerive]_vars

(***************************************************************************)
(* Properties of the merge primitive (under SpecMerge).                    *)
(***************************************************************************)
Strongest == margs.a[1]
ArgAddrs == UNION {Addrs(margs.a[i]) : i \in 1..Len(margs.a)}
MergeReturned == pc = "done" /\ mop \in {"Merge", "MergeLayers"} /\ mres # Panic

\* C2: Merge takes every plain scalar field of a struct from the stronger
\* value verbatim, zero values included: each scalar field of the strongest
\* layer appears unchanged in the merged value.
C2_ScalarFieldsFromStrongest ==
    (MergeReturned /\ margs.t.k = "struct") =>
        \A n \in DOMAIN Strongest.f :
            Strongest.f[n].k = "scalar" => mres.f[n] = Strongest.f[n]

\* what the code does keep (beside C2): the scalar fields it can set, the
\* exported ones
ExportedScalarFieldsFromStrongest ==
    (MergeReturned /\ margs.t.k = "struct") =>
        \A n \in DOMAIN Strongest.f :
            (Strongest.f[n].k = "scalar" /\ CanSet(Strongest.tn, n)) => mres.f[n] = Strongest.f[n]

\* C3: for a non-nil pointer in the stronger value Merge returns a fresh
\* pointer to Merge(*strong, *weak), or to Merge(*strong, zero value) when the
\* weaker pointer is nil, whatever the pointee holds (nil fields included).
C3_PointerRecurses ==
    (pc = "done" /\ mop = "Merge" /\ margs.t.k = "ptr" /\ ~margs.a[1].nil) =>
        LET weakPointee == IF margs.a[2].nil THEN ZeroOf(margs.t.elem) ELSE margs.a[2].elem
        IN /\ mres.k = "ptr"
           /\ ~mres.nil
           /\ DeepEqual(mres.elem, mergeValue(margs.a[1].elem, weakPointee, <<"x">>))
           /\ mres.addr \notin ArgAddrs

\* the statement of C3 restricted to the calls that return
PointerRecursesWhenReturned ==
    (pc = "done" /\ mop = "Merge" /\ margs.t.k = "ptr" /\ ~margs.a[1].nil /\ mres # Panic) =>
        LET weakPointee == IF margs.a[2].nil THEN ZeroOf(margs.t.elem) ELSE margs.a[2].elem
        IN /\ mres.k = "ptr"
           /\ ~mres.nil
           /\ DeepEqual(mres.elem, mergeValue(margs.a[1].elem, weakPointee, <<"x">>))
           /\ mres.addr \notin ArgAddrs

\* the pointer fields that are nil in the strongest of several struct layers
NilPointerFields ==
    IF margs.t.k = "struct" /\ Len(margs.a) >= 2
    THEN {n \in DOMAIN Strongest.f : Strongest.f[n].k = "ptr" /\ Strongest.f[n].nil}
    ELSE {}

\* the nearest weaker layer that sets pointer field n (0 when none does)
NearestSetter(n) ==
    LET setters == {i \in 2..Len(margs.a) : ~margs.a[i].f[n].nil}
    IN IF setters = {} THEN 0 ELSE CHOOSE i \in setters : \A j \in setters : i <= j

\* C4 as stated: a nil pointer field of the strongest layer points, in the
\* merged value, to a value equal to the pointee of the nearest weaker layer
\* that sets it, in fresh storage.
C4_NilInheritsNearestPointee ==
    (MergeReturned /\ mop = "MergeLayers") =>
        \A n \in NilPointerFields :
            NearestSetter(n) # 0 =>
                /\ ~mres.f[n].nil
                /\ DeepEqual(mres.f[n].elem, margs.a[NearestSetter(n)].f[n].elem)
                /\ Addrs(mres.f[n]) \cap ArgAddrs = {}

\* C4 amended: a nil pointer field of the strongest layer takes the value
\* the field has in the merge of all the weaker layers (the nearest weaker
\* pointee, its own unset sub-fields filled from the layers below it), in
\* fresh storage; the merge returns exactly when that of the weaker layers does.
C4_NilInheritsMergeOfWeaker ==
    (pc = "done" /\ mop = "MergeLayers") =>
        \A n \in NilPointerFields :
            LET weaker == MergeLayers(margs.t, Tail(margs.a), <<"x">>)
            IN IF weaker = Panic THEN mres = Panic
               ELSE /\ mres # Panic
                    /\ DeepEqual(mres.f[n], weaker.f[n])
                    /\ Addrs(mres.f[n]) \cap ArgAddrs = {}
                    /\ Len(margs.a) = 2 => DeepEqual(mres.f[n], margs.a[2].f[n])

\* C4 witness: three layers, the strongest leaves the pointer nil, both weaker layers set
\* it, and the merged pointee is not the nearer one's
C4_Witness ==
    /\ MergeReturned /\ mop = "MergeLayers" /\ Len(margs.a) = 3
    /\ \E n \in NilPointerFields :
          /\ ~margs.a[2].f[n].nil /\ ~margs.a[3].f[n].nil /\ ~mres.f[n].nil
          /\ ~DeepEqual(mres.f[n].elem, margs.a[2].f[n].elem)

\* C5: a non-nil stronger map merged over a weaker map has the union of the
\* key sets; a key of both holds Merge(strong[k], weak[k]), a key of one holds
\* a clone of that map's value; a nil stronger map yields Clone(weak).
C5_MapKeyWiseMerge ==
    (pc = "done" /\ mop = "Merge" /\ margs.t.k = "map") =>
        LET strong == margs.a[1]
            weak == margs.a[2]
        IN IF strong.nil THEN DeepEqual(mres, cloneValue(weak, <<"x">>))
           ELSE /\ mres.k = "map"
                /\ ~mres.nil
                /\ DOMAIN mres.m = DOMAIN strong.m \cup DOMAIN weak.m
                /\ \A key \in DOMAIN strong.m \cap DOMAIN weak.m :
                      /\ DeepEqual(mres.m[key], mergeValue(strong.m[key], weak.m[key], <<"x">>))
                      /\ strong.m[key].k = "scalar" => mres.m[key] = strong.m[key]
                /\ \A key \in DOMAIN strong.m \ DOMAIN weak.m :
                      DeepEqual(mres.m[key], cloneValue(strong.m[key], <<"x">>))
                /\ \A key \in DOMAIN weak.m \ DOMAIN strong.m :
                      DeepEqual(mres.m[key], cloneValue(weak.m[key], <<"x">>))

\* C5 witness: {a: s} merged over {a: w, b: w2} with s # w
C5_Witness ==
    /\ pc = "done" /\ mop = "Merge" /\ margs.t.k = "map"
    /\ ~margs.a[1].nil /\ DOMAIN margs.a[1].m = {kA} /\ DOMAIN margs.a[2].m = {kA, kB}
    /\ margs.a[1].m[kA] # margs.a[2].m[kA]
    /\ DOMAIN mres.m = {kA, kB}

\* C6: a non-nil stronger slice, empty or not, yields exactly an element-wise
\* clone of itself and nothing of the weaker slice; a nil stronger slice
\* yields Clone(weak).
C6_SliceWholesaleReplace ==
    (pc = "done" /\ mop = "Merge" /\ margs.t.k = "slice") =>
        LET strong == margs.a[1]
            weak == margs.a[2]
        IN IF strong.nil THEN DeepEqual(mres, cloneValue(weak, <<"x">>))
           ELSE /\ mres.k = "slice"
                /\ ~mres.nil
                /\ Len(mres.s) = Len(strong.s)
                /\ \A i \in 1..Len(strong.s) : DeepEqual(mres.s[i], strong.s[i])
                /\ mres.addr \notin ArgAddrs

\* C6 witness: a shorter non-nil slice merged over a longer one
C6_Witness ==
    /\ pc = "done" /\ mop = "Merge" /\ margs.t.k = "slice"
    /\ ~margs.a[1].nil /\ ~margs.a[2].nil
    /\ Len(margs.a[1].s) < Len(margs.a[2].s)
    /\ Len(mres.s) = Len(margs.a[1].s)

(***************************************************************************)
(* Stack life cycle: what the claims speak about, defined on the layers    *)
(* the caller supplied.                                                    *)
(***************************************************************************)
Supplied == 1..Len(layers)

HasEmptyName == \E i \in Supplied : layers[i].Scope.Name = <<>>
HasSharedName ==
    \E i, j \in Supplied : i # j /\ layers[i].Scope.Name = layers[j].Scope.Name
HasSharedPriority ==
    \E i, j \in Supplied : i # j /\ layers[i].Scope.Priority = layers[j].Scope.Priority

\* the supplied layer with exactly k - 1 supplied layers of higher priority
ByRank(k) ==
    layers[CHOOSE i \in Supplied :
              Cardinality({j \in Supplied :
                              layers[j].Scope.Priority > layers[i].Scope.Priority}) = k - 1]

SameScope(a, b) ==
    /\ a.Name = b.Name
    /\ a.Label = b.Label
    /\ a.Priority = b.Priority
    /\ DeepEqual(a.Metadata, b.Metadata)

SameLayer(a, b) ==
    /\ SameScope(a.Scope, b.Scope)
    /\ DeepEqual(a.Snapshot, b.Snapshot)
    /\ a.SnapshotID = b.SnapshotID

RECURSIVE RightFold(_)
\* Merge(S1, Merge(S2, ... Merge(S(n-1), Clone(Sn)))) of a non-empty list
RightFold(snaps) ==
    IF Len(snaps) = 1 THEN Clone(StackT, snaps[1], <<"f">>)
    ELSE mergeValue(snaps[1], RightFold(Tail(snaps)), <<"f">> \o Itoa(Len(snaps)))

Stacked == pc \in {"stacked", "merged", "resolved"}
Merged == pc \in {"merged", "resolved"}

\* C1: Stack.Merge on a stack of n >= 1 layers returns a wrapper whose Value
\* is the right fold Merge(S1, Merge(S2, ... Clone(Sn))) of the supplied
\* snapshots taken by descending priority, whatever the order they were
\* supplied in, and whose retained layers are one entry per layer (scope,
\* raw snapshot, snapshot id) in that same order.
C1_MergeIsRightFoldByPriority ==
    (Merged /\ StackLen(stack) >= 1) =>
        /\ mergeErr = NoError
        /\ ~options.nil
        /\ DeepEqual(options.Value,
                     RightFold([k \in 1..Len(layers) |-> ByRank(k).Snapshot]))
        /\ Len(layerSnapshots(options)) = Len(layers)
        /\ \A k \in 1..Len(layers) : SameLayer(layerSnapshots(options)[k], ByRank(k))

\* C1 witness: three layers supplied weakest first, with snapshots that
\* differ, have been resolved
C1_Witness ==
    /\ pc = "merged"
    /\ mergeErr = NoError
    /\ Len(layers) = 3
    /\ layers[1].Scope.Priority < layers[2].Scope.Priority
    /\ layers[2].Scope.Priority < layers[3].Scope.Priority
    /\ ~DeepEqual(layers[1].Snapshot, layers[3].Snapshot)
    /\ ~DeepEqual(options.Value, layers[3].Snapshot)

\* C7: a Stack that NewStack returns without error holds its layers in
\* strictly descending priority, every scope name non-empty, no name and no
\* priority shared; Layers() returns the supplied layers in that order and
\* Len() their count.
C7_StackInvariants ==
    (Stacked /\ stackErr = NoError) =>
        /\ ~stack.nil
        /\ \A i \in 1..Len(stack.layers) : stack.layers[i].Scope.Name # <<>>
        /\ \A i, j \in 1..Len(stack.layers) :
              i < j => /\ stack.layers[i].Scope.Priority > stack.layers[j].Scope.Priority
                       /\ stack.layers[i].Scope.Name # stack.layers[j].Scope.Name
        /\ StackLen(stack) = Len(layers)
        /\ LET out == StackLayers(StackT, stack, <<"out">>)
           IN /\ Len(out.s) = Len(layers)
              /\ \A k \in 1..Len(layers) : SameLayer(out.s[k], ByRank(k))

\* C7 witness: NewStack accepted three layers that were not supplied in
\* priority order
C7_Witness ==
    /\ pc = "stacked"
    /\ stackErr = NoError
    /\ Len(layers) = 3
    /\ layers[1].Scope.Priority < layers[2].Scope.Priority
    /\ layers[3].Scope.Priority < layers[2].Scope.Priority

\* C8: NewStack fails exactly when some layer has an empty scope name, two
\* layers share a scope name or two layers share a priority; the error kind
\* names a violation that is present, a violation that is the only one present
\* is reported under its own kind, and a failing call returns a nil Stack.
C8_NewStackFailsExactlyOnViolation ==
    Stacked =>
        /\ (stackErr # NoError) <=> (HasEmptyName \/ HasSharedName \/ HasSharedPriority)
        /\ stackErr # NoError =>
              /\ stack.nil
              /\ stackErr.kind \in
                    {"ErrScopeNameRequired", "ErrDuplicateScopeName", "ErrPriorityOrder"}
        /\ stackErr.kind = "ErrScopeNameRequired" => HasEmptyName
        /\ stackErr.kind = "ErrDuplicateScopeName" => HasSharedName
        /\ stackErr.kind = "ErrPriorityOrder" => HasSharedPriority
        /\ (HasEmptyName /\ ~HasSharedName /\ ~HasSharedPriority)
              => stackErr.kind = "ErrScopeNameRequired"
        /\ (~HasEmptyName /\ HasSharedName /\ ~HasSharedPriority)
              => stackErr.kind = "ErrDuplicateScopeName"
        /\ (~HasEmptyName /\ ~HasSharedName /\ HasSharedPriority)
              => stackErr.kind = "ErrPriorityOrder"

\* C8 witness: NewStack rejected layers whose only violation is a shared name
C8_Witness ==
    /\ pc = "stacked"
    /\ ~HasEmptyName /\ HasSharedName /\ ~HasSharedPriority
    /\ stackErr.kind = "ErrDuplicateScopeName"
    /\ stack.nil

\* C9: NewStack with no layers succeeds and yields a stack with Len() = 0
\* and Layers() = nil; Stack.Merge on an empty or nil stack returns an error
\* and no wrapper.
C9_EmptyStackLegalMergeFails ==
    /\ (Stacked /\ Len(layers) = 0) =>
          /\ stackErr = NoError
          /\ ~stack.nil
          /\ StackLen(stack) = 0
          /\ StackLayers(StackT, stack, <<"out">>) = NilLayers
    /\ (Merged /\ StackLen(stack) = 0) =>
          /\ mergeErr # NoError
          /\ options.nil

\* C9 witness: Merge has been called on the empty stack built from no layers
C9_Witness ==
    /\ pc = "merged"
    /\ Len(layers) = 0
    /\ ~stack.nil
    /\ mergeErr = ErrEmptyStack

\* a path in the sense of the path syntax: not blank, no empty segment
WellFormedPath(path) ==
    /\ \E i \in 1..Len(path) : path[i] # " "
    /\ path[1] # "."
    /\ path[Len(path)] # "."
    /\ \A i \in 1..(Len(path) - 1) : ~(path[i] = "." /\ path[i + 1] = ".")

\* the value a path navigates to in a supplied layer's snapshot
InLayer(k, path) == navigateSegments(ToAny(ByRank(k).Snapshot), Split(path, "."))

\* C10: for a wrapper produced by Stack.Merge, ResolveWithTrace(path) returns
\* a Trace with one Provenance entry per retained layer, strongest first, each
\* with that layer's scope and snapshot id, found exactly when the path
\* navigates in that layer's raw snapshot and then with the value found there;
\* the effective value is the value of the first entry that was found.
C10_TracePerLayerFirstFoundWins ==
    (pc = "resolved" /\ mergeErr = NoError /\ WellFormedPath(resolved.trace.Path)) =>
        LET path == resolved.trace.Path
            entries == resolved.trace.Layers
            found == {k \in 1..Len(entries) : entries[k].Found}
        IN /\ Len(entries) = Len(layers)
           /\ \A k \in 1..Len(entries) :
                 /\ SameScope(entries[k].Scope, ByRank(k).Scope)
                 /\ entries[k].SnapshotID = ByRank(k).SnapshotID
                 /\ entries[k].Path = path
                 /\ entries[k].Found <=> ~Failed(InLayer(k, path))
                 /\ entries[k].Found => DeepEqual(entries[k].Value, InLayer(k, path).v)
           /\ found # {} =>
                 /\ resolved.err = <<>>
                 /\ \E k \in found : /\ \A j \in found : k <= j
                                     /\ resolved.value = entries[k].Value

\* C10 witness: a map key that the strongest layer lacks and two weaker
\* layers hold with different values has been resolved
C10_Witness ==
    /\ pc = "resolved"
    /\ mergeErr = NoError
    /\ Len(resolved.trace.Layers) = 3
    /\ ~resolved.trace.Layers[1].Found
    /\ resolved.trace.Layers[2].Found
    /\ resolved.trace.Layers[3].Found
    /\ resolved.trace.Layers[2].Value # resolved.trace.Layers[3].Value
    /\ resolved.value = resolved.trace.Layers[2].Value

(***************************************************************************)
(* Provenance of the wrapper's values (under Spec).                        *)
(***************************************************************************)
\* the wrapper the last accessor call was made on
Resolvee == IF wrapper.nil THEN options ELSE wrapper

\* the retained layers of the wrapper in which a path navigates
Defining(o, path) ==
    {k \in 1..Len(layerSnapshots(o)) :
        ~Failed(navigateSegments(ToAny(layerSnapshots(o)[k].Snapshot), Split(path, ".")))}

\* the first entry of a trace that was found (0 when none was)
Source(entries) ==
    IF \A k \in 1..Len(entries) : ~entries[k].Found THEN 0
    ELSE CHOOSE k \in 1..Len(entries) : entries[k].Found /\ \A j \in 1..(k - 1) : ~entries[j].Found

\* C11: for a wrapper produced by Stack.Merge and a leaf path of its value,
\* the effective value ResolveWithTrace returns is the value Get returns on
\* the merged value, and the first found entry of the trace, the reported
\* source, carries that value: a layer that leaves an optional field unset is
\* not the source of a value inherited from a weaker layer.
C11_SourceSuppliesMergedValue ==
    (/\ pc = "resolved" /\ wrapper.nil /\ mergeErr = NoError
     /\ \E i \in 1..Len(collectPaths(options.Value)) :
            collectPaths(options.Value)[i] = resolved.trace.Path) =>
        /\ resolved.err = <<>>
        /\ ~Failed(Get(options, resolved.trace.Path))
        /\ DeepEqual(resolved.value, Get(options, resolved.trace.Path).v)
        /\ Source(resolved.trace.Layers) # 0 =>
              DeepEqual(resolved.trace.Layers[Source(resolved.trace.Layers)].Value,
                        Get(options, resolved.trace.Path).v)

\* C12: on a wrapper, ResolveWithTrace returns an error exactly when the path
\* is blank or has an empty segment, or navigates in no retained layer and
\* fails on the wrapper's value too; when no retained layer resolves the path
\* but Get succeeds, it returns Get's value, no error, and one entry per layer,
\* none of them found.
C12_ErrorOnlyWhenUnresolvable ==
    (pc = "resolved" /\ ~Resolvee.nil) =>
        /\ resolved.err # <<>> <=>
              \/ ~WellFormedPath(resolved.trace.Path)
              \/ /\ Defining(Resolvee, resolved.trace.Path) = {}
                 /\ Failed(Get(Resolvee, resolved.trace.Path))
        /\ (/\ WellFormedPath(resolved.trace.Path)
            /\ Defining(Resolvee, resolved.trace.Path) = {}
            /\ Len(layerSnapshots(Resolvee)) > 0
            /\ ~Failed(Get(Resolvee, resolved.trace.Path))) =>
              /\ resolved.err = <<>>
              /\ resolved.value = Get(Resolvee, resolved.trace.Path).v
              /\ Len(resolved.trace.Layers) = Len(layerSnapshots(Resolvee))
              /\ \A k \in 1..Len(resolved.trace.Layers) : ~resolved.trace.Layers[k].Found

\* C12 witness: a map key that no retained layer holds and the value set by
\* WithValue does has been resolved
C12_Witness ==
    /\ pc = "resolved"
    /\ ~wrapper.nil
    /\ Len(layerSnapshots(wrapper)) = 2
    /\ resolved.err = <<>>
    /\ resolved.value = Scalar(MaxScalar)
    /\ Len(resolved.trace.Layers) = 2
    /\ \A k \in 1..2 : ~resolved.trace.Layers[k].Found

RECURSIVE LeafPaths(_, _)
\* the leaf paths of a value in the sense of C13: scalars, nil values and
\* empty containers, reached through exported struct fields (by tag name,
\* else by field name), map keys and slice/array indices
LeafPaths(v, prefix) ==
    CASE v.k \in {"scalar", "invalid"} -> {prefix}
      [] v.k = "iface" -> IF IsNil(v) THEN {prefix} ELSE LeafPaths(v.elem, prefix)
      [] v.k = "ptr" -> IF IsNil(v) THEN {prefix} ELSE LeafPaths(v.elem, prefix)
      [] v.k = "struct" ->
            UNION {LeafPaths(v.f[StructFields(v.tn)[i].name],
                             appendPathSegment(prefix,
                                IF StructFields(v.tn)[i].tag # NoTag
                                THEN StructFields(v.tn)[i].tag
                                ELSE StructFields(v.tn)[i].name)) :
                      i \in {j \in 1..Len(StructFields(v.tn)) : StructFields(v.tn)[j].exported}}
      [] v.k = "map" ->
            IF IsNil(v) \/ DOMAIN v.m = {} THEN {prefix}
            ELSE UNION {LeafPaths(v.m[key], appendPathSegment(prefix, key)) : key \in DOMAIN v.m}
      [] v.k \in {"slice", "array"} ->
            IF Len(v.s) = 0 THEN {prefix}
            ELSE UNION {LeafPaths(v.s[i], appendPathSegment(prefix, Itoa(i - 1))) :
                            i \in 1..Len(v.s)}

\* a layer of the stack carries this scope
ScopeOfLayer(scope) == \E k \in 1..Len(layers) : SameScope(scope, layers[k].Scope)

\* C13: for a wrapper produced by Stack.Merge, FlattenWithProvenance returns
\* without error exactly one entry per leaf path of the merged value, each
\* with a non-empty path and the scope of a stack layer, found whenever some
\* layer defines the path.
C13_FlattenOneEntryPerLeaf ==
    (pc = "flattened" /\ wrapper.nil /\ mergeErr = NoError) =>
        /\ flat.err = <<>>
        /\ Len(flat.results) = Cardinality(LeafPaths(options.Value, <<>>))
        /\ \A path \in LeafPaths(options.Value, <<>>) :
              \E i \in 1..Len(flat.results) : flat.results[i].Path = path
        /\ \A i \in 1..Len(flat.results) :
              /\ flat.results[i].Path # <<>>
              /\ ScopeOfLayer(flat.results[i].Scope)
              /\ Defining(options, flat.results[i].Path) # {} => flat.results[i].Found

\* what the code does return: one entry per path that collectPaths
\* enumerates, which leaves out the empty maps
FlattenOneEntryPerCollectedPath ==
    (pc = "flattened" /\ wrapper.nil /\ mergeErr = NoError) =>
        /\ flat.err = <<>>
        /\ Len(flat.results) = Len(collectPaths(options.Value))
        /\ \A i \in 1..Len(flat.results) :
              /\ flat.results[i].Path = collectPaths(options.Value)[i]
              /\ flat.results[i].Path # <<>>
              /\ ScopeOfLayer(flat.results[i].Scope)
              /\ Defining(options, flat.results[i].Path) # {} => flat.results[i].Found

(***************************************************************************)
(* Storage shared with the caller (under SpecFrame).                       *)
(***************************************************************************)
\* C14: layers and stacks share no storage with the caller's data.  After
\* an assignment through the caller's original snapshot or metadata map, the
\* layers hold, and Stack.Layers() and Stack.Merge() return, what they did
\* before; after an assignment through a layer's snapshot or through a value
\* that Stack.Layers() returned, the caller's originals are what they were
\* and Stack.Layers() returns what it did before.
C14_NoStorageSharedWithCaller ==
    pc = "written" =>
        /\ before.via = "origin" =>
              /\ layers = before.layers
              /\ StackLayers(StackT, stack, <<"out">>) = before.listed
              /\ StackMerge(StackT, stack, <<"O">>) = before.merged
        /\ before.via \in {"layer", "listed"} =>
              /\ caller.origin = before.held.origin
              /\ StackLayers(StackT, stack, <<"out">>) = before.listed

\* C14 witness: the caller has replaced a key of the metadata map of a layer
\* that Stack.Layers() returned, on a stack of two layers
C14_Witness ==
    /\ pc = "written"
    /\ before.via = "listed"
    /\ Len(stack.layers) = 2
    /\ \E i \in 1..2 :
          /\ caller.listed.s[i].Scope.Metadata = Map(<<"out">> \o Itoa(i) \o <<"scope">>, kA :> Written)
          /\ before.listed.s[i].Scope.Metadata =
                Map(<<"out">> \o Itoa(i) \o <<"scope">>, kA :> Scalar(MaxScalar))

\* C15: no accessor of a merged wrapper returns a live alias of internal
\* storage: after an assignment through a value that Get, ResolveWithTrace
\* (effective value, entry values, entry scopes' metadata) or
\* FlattenWithProvenance returned, each of the three returns what it
\* returned before, for every path.
C15_AccessorsReturnFreshCopies ==
    (pc = "written" /\ before.via \in {"got", "resolved", "flattened"}) =>
        /\ \A path \in Paths :
              /\ Get(options, path) = before.get[path]
              /\ ResolveWithTrace(options, path) = before.resolve[path]
        /\ FlattenWithProvenance(options) = before.flatten

(***************************************************************************)
(* The wrapper's own operations (under SpecWrap).                          *)
(***************************************************************************)
\* the last call on a wrapper and the state of its receiver before and after
LastCall == caller.got
ReceiverBefore == IF before.via = "wrapper" THEN before.wrapper ELSE before.options
ReceiverAfter == IF before.via = "wrapper" THEN wrapper ELSE options

\* C16: Get and Set report every failure as a returned error and never
\* crash, whatever the wrapped value (nil maps and nil pointers included) and
\* the path: the call returns, a blank path or an empty segment yields an
\* error, and so does a Set on a struct-backed snapshot.
C16_GetSetReturnErrors ==
    /\ (pc = "got" /\ LastCall.op = "Get") =>
          /\ LastCall.result # Panic
          /\ ~WellFormedPath(LastCall.path) => Failed(LastCall.result)
    /\ (pc = "mutated" /\ LastCall.op = "Set") =>
          /\ LastCall.result.status # "panic"
          /\ ~WellFormedPath(LastCall.path) => LastCall.result.status = "error"
          /\ margs.t.k = "struct" => LastCall.result.status = "error"

\* what the code does do: Set returns, with or without an error, unless it
\* has to assign to a nil map
NilMapOnPath(v, segments) ==
    \E n \in 0..(Len(segments) - 1) :
        /\ ~Failed(navigateSegments(v, SubSeq(segments, 1, n)))
        /\ navigateSegments(v, SubSeq(segments, 1, n)).v = NilMap

SetCrashesAtNilMapOnly ==
    (pc = "mutated" /\ LastCall.op = "Set" /\ LastCall.result.status = "panic") =>
        NilMapOnPath(ReceiverBefore.Value, Split(LastCall.path, "."))

RECURSIVE MapsAlong(_, _)
\* the node and every existing intermediate node below it on the path is a map
MapsAlong(v, segments) ==
    /\ v.k = "map"
    /\ \/ Len(segments) = 1
       \/ Head(segments) \notin DOMAIN v.m
       \/ MapsAlong(ToAny(v.m[Head(segments)]), Tail(segments))

RECURSIVE OtherAlong(_, _)
\* the node, or an existing intermediate node below it on the path, is a
\* struct, a slice, an array or a scalar
OtherAlong(v, segments) ==
    \/ v.k \in {"struct", "slice", "array", "scalar"}
    \/ /\ v.k = "map"
       /\ Len(segments) > 1
       /\ Head(segments) \in DOMAIN v.m
       /\ OtherAlong(ToAny(v.m[Head(segments)]), Tail(segments))

\* C17: Set(path, v) succeeds on every map-backed snapshot in which the root
\* and every existing intermediate node on the path is a string-keyed map,
\* and Get(path) then returns v; Set returns an error when the snapshot is
\* struct-backed or a node on the way is a struct, slice, array or scalar.
C17_SetThenGetOnMaps ==
    (pc = "mutated" /\ LastCall.op = "Set" /\ WellFormedPath(LastCall.path)) =>
        /\ (margs.t.k = "map" /\ MapsAlong(ReceiverBefore.Value, Split(LastCall.path, "."))) =>
              /\ LastCall.result.status = "ok"
              /\ Get(ReceiverAfter, LastCall.path) = Ok(ToAny(LastCall.value))
        /\ (margs.t.k = "struct" \/ OtherAlong(ReceiverBefore.Value, Split(LastCall.path, "."))) =>
              LastCall.result.status = "error"

\* what the code does do: the same for maps that are non-nil map[string]any
AllocatedMapsAlong(v, segments) ==
    /\ MapsAlong(v, segments)
    /\ ~NilMapOnPath(v, segments)

SetThenGetOnAllocatedDynamicMaps ==
    (pc = "mutated" /\ LastCall.op = "Set" /\ WellFormedPath(LastCall.path)) =>
        /\ (margs.t = TDyn
            /\ AllocatedMapsAlong(ReceiverBefore.Value, Split(LastCall.path, "."))) =>
              /\ LastCall.result.status = "ok"
              /\ Get(ReceiverAfter, LastCall.path) = Ok(ToAny(LastCall.value))
        /\ (margs.t.k = "struct" \/ OtherAlong(ReceiverBefore.Value, Split(LastCall.path, "."))) =>
              LastCall.result.status = "error"

\* the layers LayerWith merges, strongest first, the receiver's value last
Chain == IF options.nil THEN margs.a ELSE margs.a \o <<options.Value>>

\* C18: o.LayerWith(l1..ln) returns a new wrapper, never the receiver, whose
\* Value equals MergeLayers(l1, ..., ln, o.Value); the receiver's Value is
\* unchanged and the configuration is preserved; on a nil receiver it
\* returns a wrapper around MergeLayers(l1..ln), or nil without layers.
C18_LayerWithMergesOverCurrent ==
    (pc = "derived" /\ mop = "LayerWith") =>
        /\ (options.nil /\ margs.a = <<>>) => wrapper = NoOptions
        /\ (options.nil /\ margs.a # <<>>) =>
              /\ ~wrapper.nil
              /\ DeepEqual(wrapper.Value, MergeLayers(margs.t, margs.a, <<"expected">>))
        /\ ~options.nil =>
              /\ ~wrapper.nil
              /\ wrapper.self # options.self
              /\ DeepEqual(wrapper.Value, MergeLayers(margs.t, Chain, <<"expected">>))
              /\ wrapper.cfg = options.cfg
              /\ options.Value = caller.origin[1].snapshot

\* C18 witness: LayerWith has merged two layers that differ over a receiver
\* whose value differs from the result
C18_Witness ==
    /\ pc = "derived"
    /\ mop = "LayerWith"
    /\ ~options.nil
    /\ ~wrapper.nil
    /\ Len(margs.a) = 2
    /\ ~DeepEqual(margs.a[1], margs.a[2])
    /\ ~DeepEqual(wrapper.Value, options.Value)
    /\ ~DeepEqual(wrapper.Value, margs.a[1])

\* the value of field n in the nearest layer of the chain that sets it
\* (the zero value when none does)
NearestSet(n) ==
    IF \A i \in 1..Len(Chain) : Chain[i].f[n] = Scalar(0) THEN Scalar(0)
    ELSE Chain[CHOOSE i \in 1..Len(Chain) :
                 /\ Chain[i].f[n] # Scalar(0)
                 /\ \A j \in 1..(i - 1) : Chain[j].f[n] = Scalar(0)].f[n]

\* the call of the README: New(defaults).LayerWith(userSettings, groupDefaults)
ReadmeCall ==
    /\ pc = "derived"
    /\ mop = "LayerWith"
    /\ ~options.nil
    /\ options.Value = defaults
    /\ margs.a = <<userSettings, groupDefaults>>

CloneReturnsNewWrapper ==
    (pc = "derived" /\ mop \in {"Clone", "WithValue"}) =>
        /\ (options.nil /\ mop = "Clone") => wrapper = NoOptions
        /\ (options.nil /\ mop = "WithValue") =>
              (~wrapper.nil /\ wrapper.Value = margs.a[1])
        /\ ~options.nil =>
              /\ ~wrapper.nil
              /\ wrapper.self # options.self
              /\ wrapper.cfg = options.cfg
              /\ mop = "Clone" => DeepEqual(wrapper.Value, options.Value)
              /\ mop = "WithValue" => wrapper.Value = margs.a[1]

\* a mutation through one wrapper has left the Value of the other as it was
OtherUnchanged ==
    /\ before.via = "wrapper" => options = before.options
    /\ before.via = "options" => wrapper = before.wrapper

\* C20 as stated: Clone and WithValue return a new wrapper with the same
\* configuration (an equal Value for Clone), and for every snapshot type a
\* later mutation through one of the two wrappers (a field assignment or a
\* Set) never changes the Value of the other.
C20_CloneIsolatesEverySnapshot ==
    /\ CloneReturnsNewWrapper
    /\ (pc = "mutated" /\ mop \in {"Clone", "WithValue"}) => OtherUnchanged

\* C20 amended: Clone and WithValue return a new wrapper with the same
\* configuration (an equal Value for Clone).  Clone copies the Value
\* shallowly: a mutation through one wrapper leaves the other's Value as it
\* was when the snapshot is a plain struct; a map-backed snapshot is shared,
\* and what a Set that succeeds on either wrapper has stored is in both.  A
\* wrapper made by WithValue from a value that shares no storage with the
\* original's is independent of the original.
C20_CloneIsShallow ==
    /\ CloneReturnsNewWrapper
    /\ (pc = "mutated" /\ mop = "WithValue") => OtherUnchanged
    /\ (pc = "mutated" /\ mop = "Clone" /\ margs.t.k = "struct") => OtherUnchanged
    /\ (pc = "mutated" /\ mop = "Clone" /\ margs.t.k = "map") =>
          /\ wrapper.Value = options.Value
          /\ (LastCall.result.status = "ok") =>
                /\ Get(options, LastCall.path) = Ok(ToAny(LastCall.value))
                /\ Get(wrapper, LastCall.path) = Ok(ToAny(LastCall.value))

\* C20 witness: a Set on the clone of a map-backed wrapper has succeeded
\* and the original's Value has the new key
C20_Witness ==
    /\ pc = "mutated"
    /\ mop = "Clone"
    /\ margs.t = TDyn
    /\ before.via = "wrapper"
    /\ LastCall.op = "Set"
    /\ LastCall.path = kB
    /\ LastCall.result.status = "ok"
    /\ kB \notin DOMAIN before.options.Value.m
    /\ kB \in DOMAIN options.Value.m

(***************************************************************************)
(* Properties of the traversal (under SpecWalk).                           *)
(***************************************************************************)
\* the maps reached from map a through map entries alone, no pointer between
MapEdges(heap, a) == {b \in MapAddrs : \E key \in DOMAIN heap[a] : heap[a][key] = MapAt(b)}
MapReach(heap, a) ==
    MapEdges(heap, a) \cup UNION {MapEdges(heap, b) : b \in MapEdges(heap, a)}

\* a map that contains itself directly or through other maps
SelfContaining(heap) == {a \in MapAddrs : a \in MapReach(heap, a)}

\* C21: FlattenWithProvenance terminates on every wrapped value, values
\* with shared or cyclic substructure through pointers or dynamic values
\* (a map[string]any that contains itself) included: every call returns.
C21_FlattenTerminates == <>(walk.pc = "returned")

\* the traversal ends whenever every cycle of the graph passes a pointer
FlattenTerminatesOnPointerCycles ==
    (walk.pc # "idle" /\ SelfContaining(walk.heap) = {}) ~> (walk.pc = "returned")

\* the stack is exhausted only below a map that contains itself
OverflowOnlyInSelfContainingMap ==
    (walk.pc = "overflow") => (SelfContaining(walk.heap) # {})

(***************************************************************************)
(* Properties of the serialisation (under SpecWire).                       *)
(***************************************************************************)
RoundTripped == wire.pc = "read"

\* C22: TraceFromJSON(ToJSON(t)) preserves the path and, for every
\* Provenance entry in order, the scope name, snapshot id, found flag and
\* value exactly, whatever value the layer supplied (false, 0, the empty
\* string and integers included).
C22_TraceRoundTrip ==
    RoundTripped =>
        /\ wire.restore.Path = wire.trace.Path
        /\ Len(wire.restore.Layers) = Len(wire.trace.Layers)
        /\ \A i \in 1..Len(wire.trace.Layers) :
              /\ wire.restore.Layers[i].Scope.Name = wire.trace.Layers[i].Scope.Name
              /\ wire.restore.Layers[i].SnapshotID = wire.trace.Layers[i].SnapshotID
              /\ wire.restore.Layers[i].Found = wire.trace.Layers[i].Found
              /\ wire.restore.Layers[i].Value = wire.trace.Layers[i].Value

\* everything but the dynamic type of a number survives the round trip
TraceRoundTripUpToNumberType ==
    RoundTripped =>
        /\ wire.restore.Path = wire.trace.Path
        /\ Len(wire.restore.Layers) = Len(wire.trace.Layers)
        /\ \A i \in 1..Len(wire.trace.Layers) :
              /\ wire.restore.Layers[i].Scope = wire.trace.Layers[i].Scope
              /\ wire.restore.Layers[i].SnapshotID = wire.trace.Layers[i].SnapshotID
              /\ wire.restore.Layers[i].Path = wire.trace.Layers[i].Path
              /\ wire.restore.Layers[i].Found = wire.trace.Layers[i].Found
              /\ \/ wire.restore.Layers[i].Value = wire.trace.Layers[i].Value
                 \/ /\ wire.trace.Layers[i].Value.type = "int"
                    /\ wire.restore.Layers[i].Value =
                          GoFloat64(wire.trace.Layers[i].Value.n)

(***************************************************************************)
(* Algebra of the merge primitive (under SpecMerge).                       *)
(***************************************************************************)
RECURSIVE HasPointer(_)
\* a pointer occurs somewhere in the value
HasPointer(v) ==
    CASE v.k = "ptr" -> TRUE
      [] v.k = "iface" -> v.elem # Invalid /\ HasPointer(v.elem)
      [] v.k = "struct" -> \E n \in DOMAIN v.f : HasPointer(v.f[n])
      [] v.k = "map" -> ~v.nil /\ \E key \in DOMAIN v.m : HasPointer(v.m[key])
      [] v.k \in {"slice", "array"} -> \E i \in 1..Len(v.s) : HasPointer(v.s[i])
      [] OTHER -> FALSE

\* a two-value merge of x with an equal x has returned
MergedWithItself ==
    /\ pc = "done"
    /\ mop \in {"Merge", "MergeLayers"}
    /\ Len(margs.a) = 2
    /\ DeepEqual(margs.a[1], margs.a[2])
    /\ ~HasPointer(margs.a[1])

\* C23: Merge is idempotent on equal inputs: Merge(x, x) is structurally
\* equal to Clone(x), and to x, for every x built from scalars, structs,
\* maps, slices and arrays without nil-signalling pointers.
C23_MergeIdempotent ==
    MergedWithItself =>
        /\ mres # Panic
        /\ DeepEqual(mres, Clone(margs.t, margs.a[1], <<"c">>))
        /\ DeepEqual(mres, margs.a[1])

\* Merge(x, x) equals Clone(x) for every such x
MergeWithItselfIsClone ==
    MergedWithItself =>
        /\ mres # Panic
        /\ DeepEqual(mres, Clone(margs.t, margs.a[1], <<"c">>))

\* and equals x unless x holds a struct with a field that cannot be set
MergeWithItselfIsIdentityOnExported ==
    (MergedWithItself /\ margs.t # TStruct("plain")) => DeepEqual(mres, margs.a[1])

(***************************************************************************)
(* Order of the arguments of NewStack (under Spec).                        *)
(***************************************************************************)
\* the orderings of the supplied layers
Orderings == {f \in [Supplied -> Supplied] : \A i, j \in Supplied : f[i] = f[j] => i = j}

\* NewStack on the supplied layers passed in the order f
Reordered(f) == NewStack(StackT, [i \in Supplied |-> layers[f[i]]], <<"R">>)

SameStack(a, b) ==
    /\ a.nil = b.nil
    /\ Len(a.layers) = Len(b.layers)
    /\ \A i \in 1..Len(a.layers) :
          i <= Len(b.layers) => SameLayer(a.layers[i], b.layers[i])

\* C24: the outcome of NewStack does not depend on the order in which the
\* layers are passed: every ordering of the same layers yields the same
\* strongest-to-weakest sequence or the same error (kind and message).
C24_NewStackOrderIndependent ==
    (pc = "stacked") =>
        \A f \in Orderings :
            /\ Reordered(f).err = stackErr
            /\ SameStack(Reordered(f).stack, stack)

\* the order matters only among layers that fail the name check
NewStackOrderIndependentOnValidNames ==
    (pc = "stacked" /\ ~(HasEmptyName /\ HasSharedName)) =>
        \A f \in Orderings :
            /\ Reordered(f).err.kind = stackErr.kind
            /\ SameStack(Reordered(f).stack, stack)
            /\ (~HasSharedName => Reordered(f).err = stackErr)

(***************************************************************************)
(* Properties of Resolver.Mutate (under SpecState).                        *)
(***************************************************************************)
\* the positions of the calls of Store.Save in the log of the call
SaveCalls == {i \in 1..Len(mutation.log) : mutation.log[i].step = "Save"}

\* what precedes a save: load, ETag check, mutator and validation, all passed
BeforeSave ==
    <<Event("Load", TRUE), Event("ETag", TRUE), Event("fn", TRUE), Event("Validate", TRUE)>>

\* a step before the save failed, or an argument was rejected
FailedBeforeSave ==
    /\ mutation.pc \in {"returned", "reloaded"}
    /\ \/ mutation.log = <<>>
       \/ ~mutation.log[Len(mutation.log)].ok /\ mutation.log[Len(mutation.log)].step # "Save"

\* C25: Resolver.Mutate calls Store.Save at most once, and only after the
\* load succeeded, the ETag check passed, the mutator returned nil and the
\* validation succeeded, in this order; a differing pair of non-empty ETags
\* fails with ErrETagMismatch; in every failing case Save is never called
\* and a non-nil error with no wrapper is returned.
C25_SaveOnlyAfterAllChecks ==
    (mutation.pc # "idle") =>
        /\ Cardinality(SaveCalls) <= 1
        /\ \A i \in SaveCalls : SubSeq(mutation.log, 1, i - 1) = BeforeSave
        /\ (storage # NoStorage /\ storage.impl = "mutateStore") =>
              storage.saveCalls = Cardinality(SaveCalls)
        /\ (Event("ETag", FALSE) \in {mutation.log[i] : i \in 1..Len(mutation.log)}) <=>
              /\ mutation.pc \in {"returned", "reloaded"}
              /\ mutation.err.kind = "ErrETagMismatch"
        /\ (mutation.err.kind = "ErrETagMismatch") <=>
              /\ Event("Load", TRUE) \in {mutation.log[i] : i \in 1..Len(mutation.log)}
              /\ mutation.meta.ETag # <<>>
              /\ mutation.loadedMeta.ETag # <<>>
              /\ mutation.meta.ETag # mutation.loadedMeta.ETag
        /\ FailedBeforeSave =>
              /\ SaveCalls = {}
              /\ mutation.err # NoError
              /\ mutation.options = NoOptions

\* a call that got as far as the validation and was turned down there
C25_Witness ==
    /\ mutation.pc = "returned"
    /\ mutation.log = <<Event("Load", TRUE), Event("ETag", TRUE), Event("fn", TRUE),
                        Event("Validate", FALSE)>>
    /\ storage.impl = "mutateStore"
    /\ storage.saveCalls = 0
    /\ mutation.meta.ETag = etagV1

(***************************************************************************)
(* Properties of the shared wrapper (under SpecShared).                    *)
(***************************************************************************)
\* the accesses two goroutines are about to make conflict: the same field,
\* one of them a write, nothing ordering them
Conflict(g, h) ==
    /\ g # h
    /\ sharing.callers[g].todo # <<>>
    /\ sharing.callers[h].todo # <<>>
    /\ Head(sharing.callers[g].todo).kind = "write"
    /\ Head(sharing.callers[h].todo).loc = Head(sharing.callers[g].todo).loc

DataRace == sharing.pc = "running" /\ \E g, h \in Callers : Conflict(g, h)

\* C26: one wrapper can be shared by concurrent callers without locks:
\* under every interleaving of Get, ResolveWithTrace, FlattenWithProvenance,
\* Schema, Evaluate and EvaluateWith no operation writes to the wrapper's
\* value, retained layers or configuration, and no data race is reachable.
C26_ReadOperationsShareWithoutLocks ==
    (sharing.pc = "running") => (options = sharing.initial /\ ~DataRace)

\* the operations other than Evaluate and EvaluateWith write nothing, and
\* those two write only when no evaluator was configured
OnlyDefaultEvaluatorIsWritten ==
    (sharing.pc = "running") =>
        /\ options.Value = sharing.initial.Value
        /\ options.layers = sharing.initial.layers
        /\ [options.cfg EXCEPT !.evaluator = NoEvaluator]
              = [sharing.initial.cfg EXCEPT !.evaluator = NoEvaluator]
        /\ (sharing.initial.cfg.evaluator # NoEvaluator
              \/ \A g \in Callers : sharing.callers[g].op \notin {"Evaluate", "EvaluateWith"})
              => (options = sharing.initial /\ ~DataRace)

(***************************************************************************)
(* Properties of the derived wrappers (under SpecDerive).                  *)
(***************************************************************************)
\* a path has been asked of the latest wrapper and Get found a scalar there
ScalarLeafQueried ==
    /\ derivation.pc = "queried"
    /\ ~Failed(derivation.got.result)
    /\ derivation.got.result.v.k = "scalar"

\* C27: after any sequence of LayerWith, WithValue, Clone and Set applied to
\* a wrapper obtained from Stack.Merge over snapshots of string-keyed maps
\* and scalars, ResolveWithTrace(p) returns, for every scalar leaf path p
\* that Get resolves, the same value as Get(p) on that wrapper.
C27_ProvenanceInSyncWithValue ==
    ScalarLeafQueried =>
        /\ resolved.err = <<>>
        /\ DeepEqual(ToAny(resolved.value), derivation.got.result.v)

\* without a derivation, and after Clone alone, the two agree
ProvenanceInSyncOnMergedWrapper ==
    (ScalarLeafQueried /\ \A i \in 1..Len(derivation.log) : derivation.log[i] = "Clone") =>
        /\ resolved.err = <<>>
        /\ DeepEqual(ToAny(resolved.value), derivation.got.result.v)

(***************************************************************************)
(* Clone keeps the data (under SpecMerge).                                 *)
(***************************************************************************)
\* Clone(v) has returned, or MergeLayers(v) over the one layer v
ClonedOne ==
    /\ pc = "done"
    /\ Len(margs.a) = 1
    /\ mop \in {"Clone", "MergeLayers"}

\* C28: Clone loses no data: for every value v, Clone(v), and with it the
\* snapshot NewLayer stores and MergeLayers(v) over a single layer, is
\* structurally equal to v, also when v is or holds a struct with
\* unexported fields.
C28_CloneLosesNoData ==
    ClonedOne => (mres # Panic /\ DeepEqual(mres, margs.a[1]))

\* the copy equals v wherever v holds no struct with a field that cannot be set
CloneKeepsSettableData ==
    (ClonedOne /\ margs.t # TStruct("plain")) =>
        (mres # Panic /\ DeepEqual(mres, margs.a[1]))

\* of a struct with an unexported field the exported fields are kept
CloneKeepsExportedFields ==
    (ClonedOne /\ margs.t = TStruct("plain")) =>
        (mres # Panic /\ mres.f[fFlag] = margs.a[1].f[fFlag])

(***************************************************************************)
(* Set and its errors (under SpecWrap).                                    *)
(***************************************************************************)
\* a Set has returned an error
SetReturnedError ==
    /\ pc = "mutated"
    /\ LastCall.op = "Set"
    /\ LastCall.result.status = "error"

\* C29: Set is all-or-nothing: whenever Set(path, v) returns an error the
\* wrapped value is unchanged: no intermediate map has been created and no
\* key has been added or overwritten.
C29_SetAllOrNothing ==
    SetReturnedError =>
        /\ ~Wrote(LastCall.result)
        /\ options = before.options
        /\ wrapper = before.wrapper

\* C29 witness: a Set on a map[string]any whose path runs into a scalar
\* below an existing key has returned its error
C29_Witness ==
    /\ SetReturnedError
    /\ margs.t = TDyn
    /\ WellFormedPath(LastCall.path)
    /\ Len(splitPath(LastCall.path).v) > 1
    /\ Head(splitPath(LastCall.path).v) \in DOMAIN Receiver(LastCall.recv).Value.m

(***************************************************************************)
(* What a failed Mutate leaves in the store (under SpecState).             *)
(***************************************************************************)
\* Mutate on a MemoryStore holding a snapshot for the Ref has failed in the
\* mutator or in the validation, and the Ref has been loaded again
FailedMutateReloaded ==
    /\ mutation.pc = "reloaded"
    /\ storage.impl = "MemoryStore"
    /\ storage.has
    /\ mutation.log # <<>>
    /\ mutation.log[Len(mutation.log)] \in {Event("fn", FALSE), Event("Validate", FALSE)}

\* C30: a failed Resolver.Mutate has no persistent effect: with a
\* MemoryStore holding a map-typed snapshot for the ref, when the mutator
\* returns an error or the validation of the mutated snapshot fails, a
\* subsequent Load of the same ref returns a snapshot equal to the one
\* stored before the Mutate call.
C30_FailedMutateLeavesStore ==
    FailedMutateReloaded =>
        /\ mutation.reload.err = NoError
        /\ mutation.reload.ok
        /\ DeepEqual(mutation.reload.snapshot, mutation.prior)

\* a mutator that puts a new map in place of the loaded one leaves the store as it was
FailedReplacingMutateLeavesStore ==
    (FailedMutateReloaded /\ mutation.fn.op = "replace") =>
        /\ mutation.reload.err = NoError
        /\ mutation.reload.ok
        /\ DeepEqual(mutation.reload.snapshot, mutation.prior)

====
